---- MODULE Spec2Model ----
(***************************************************************************)
(* Lithuanian-law-mcp ingestion pipeline.                                  *)
(*                                                                         *)
(* Part I  : the rate-limited fetch client (scripts/lib/fetcher.ts):       *)
(*           rateLimit, fetchJson, fetchAllRows.  Specification SpecFetch. *)
(* Part II : edition metadata, the edition resolver and the document       *)
(*           fallback (scripts/ingest.ts): collectSuvestineMetadata,       *)
(*           resolveSuvestineSources, resolveDocumentFallbackSources.      *)
(*           Specification SpecIngest.                                     *)
(*                                                                         *)
(* Time is the millisecond clock Date.now().  It advances only at the      *)
(* suspension points of the code (a setTimeout sleep, a pending fetch);    *)
(* synchronous code between two awaits takes no clock time.                *)
(***************************************************************************)
EXTENDS Integers, Sequences, FiniteSets, TLC

None == "none"
\* no request start time yet
NoTime == -1

\* ------------------------------------------------------------------------
\* Program constants of the fetch client
\* ------------------------------------------------------------------------
MIN_DELAY_MS == 1200
maxRetries == 3
BackoffStepMs == 1500
OffsetCeiling == 2000000
PageSizes == {5000, 10000}

\* ------------------------------------------------------------------------
\* Bounds of the environment
\* ------------------------------------------------------------------------
\* paginated fetches issued in one run
MaxCalls == 2
\* failed responses (retryable or not) the server produces in one run
MaxFaults == 4
\* full pages the server delivers per paginated fetch of a finite data set
MaxFullPages == 2
\* Date.now() when the process starts, in multiples of MIN_DELAY_MS
\* (any value >= MIN_DELAY_MS behaves alike: lastRequestAt starts at 0)
StartClockUnits == 50

StartClock == StartClockUnits * MIN_DELAY_MS

\* HTTP statuses the server answers with
Statuses == {200, 404, 429, 499, 500, 503}
\* response latencies and timer overshoots (ms) of an irregular server/event loop
Latencies == {700, 1500}
Overshoots == {0, 100}

VARIABLES
    \* ---- Part I: fetch client ----
    now,            \* Date.now()
    lastRequestAt,  \* fetcher.ts module state
    fpc,            \* position of the fetch client
    endless,        \* environment: the queried data set never ends (every page full)
    pageSize,       \* fetchAllRows parameter
    offset,         \* fetchAllRows local
    out,            \* fetchAllRows local: rows received so far (run-length encoded)
    attempt,        \* fetchJson loop variable
    inflight,       \* the set of requests awaiting their response
    returned,       \* the current fetchAllRows call has returned
    result,         \* rows returned by the last completed fetchAllRows
    failure,        \* the error thrown out of the fetch client (kind "none": no error)
    calls,          \* number of fetchAllRows calls started
    faults,         \* failed responses produced so far
    fullPages,      \* full pages delivered in the current call
    reqInCall,      \* requests issued by the current fetchAllRows call
    reqInJson,      \* requests issued by the current fetchJson call
    prevStart,      \* start time of the last but one request of the run
    lastStart,      \* start time of the last request of the run
    lastGap,        \* what separated the last two requests: "retry", "page", "call"
    served,         \* number of rows the server delivered to the current call
    lastResp,       \* the last response of the current call and how it was handled
    waited,         \* duration of the last backoff sleep of the current fetchJson call
    backoffSpent    \* time the current fetchJson call has slept in its backoffs

fetchVars == <<now, lastRequestAt, fpc, endless, pageSize, offset, out, attempt,
               inflight, returned, result, failure, calls, faults, fullPages,
               reqInCall, reqInJson, prevStart, lastStart, lastGap, served, lastResp, waited,
               backoffSpent>>

VARIABLES
    \* ---- the state of main() (scripts/ingest.ts), used in Part II ----
    ipc,                \* position of main()
    args,               \* CliArgs: chunkDocs, chunkTexts, maxSuvestineRounds
    targetDocs,         \* main: targetDocs (document identifiers)
    chunkIdx,           \* loop variable i of the chunk loop in progress
    editionsByDoc,      \* collectSuvestineMetadata: byDoc
    selected,           \* resolveSuvestineSources: selected
    unresolved,         \* resolveSuvestineSources: unresolved
    round,              \* resolveSuvestineSources: round
    candidates,         \* resolveSuvestineSources: candidates (insertion order kept)
    roundExhausted,     \* resolveSuvestineSources: roundExhausted
    suvestineIds,       \* resolveSuvestineSources: suvestineIds
    textBySuvestine,    \* resolveSuvestineSources: textBySuvestine
    unresolvedAfterRounds, \* resolveSuvestineSources: result.unresolved
    fallbackSelected,   \* resolveDocumentFallbackSources: selected
    selectedByDocument, \* main: selectedByDocument
    textServed,         \* history: what the server answered per requested edition text
    textRequested,      \* history: the edition identifiers whose text was requested, in order
    resolvedRound,      \* history: per document, the round it was selected in
    fallbackRequested,  \* history: documents whose fallback text was requested
    parked,             \* history: documents ever put into roundExhausted
    docServed           \* history: the row the server returned per document in the fallback

ingestVars == <<ipc, args, targetDocs, chunkIdx, editionsByDoc, selected, unresolved,
                round, candidates, roundExhausted, suvestineIds, textBySuvestine,
                unresolvedAfterRounds, fallbackSelected, selectedByDocument,
                textServed, textRequested, resolvedRound, fallbackRequested, parked,
                docServed>>

VARIABLES
    \* ---- buildSeedIdMap (scripts/ingest.ts), used in Part III ----
    idpc,       \* position of buildSeedIdMap: "idle", "loop", "returned", "threw"
    docs,       \* buildSeedIdMap parameter
    docPos,     \* number of documents the for loop has handled
    map,        \* buildSeedIdMap: map
    used        \* buildSeedIdMap: used

idVars == <<idpc, docs, docPos, map, used>>

VARIABLES
    \* ---- runs of main() and the output directories, used in Part IV ----
    allInForceLaws,     \* the rows fetchAllInForceLaws returns (registry snapshot)
    corpusDocs,         \* main: corpusDocs
    seedIdByDocument,   \* main: seedIdByDocument
    docIdx,             \* number of target documents the write loop has handled
    skipped,            \* main: skipped
    written,            \* main: written
    totalProvisions,    \* main: totalProvisions
    totalDefinitions,   \* main: totalDefinitions
    suvestineUsed,      \* main: suvestineUsed
    dokumentasUsed,     \* main: dokumentasUsed
    seedDir,            \* disk: data/seed, file name -> seed record
    sourceDir,          \* disk: data/source, file name -> provenance record
    summaryFile,        \* disk: data/source/_ingestion-summary.json
    skippedFile,        \* disk: data/source/_skipped-laws.json
    runs,               \* number of runs started
    summaryBefore,      \* history: the summary file when the run started
    skipLatest,         \* history: per (document, reason), the entry of the latest skip
    seedWrites,         \* history: the seed files written by the run, in order
    sourceWrites,       \* history: the provenance files written by the run, in order
    idsWritten,         \* history: <<mode, document, identifier>> of every seed written
    resumeLog,          \* history: args.resume of every run started, in order
    seedDirBefore,      \* history: data/seed when the run started
    sourceDirBefore     \* history: data/source when the run started

runVars == <<allInForceLaws, corpusDocs, seedIdByDocument, docIdx, skipped, written,
             totalProvisions, totalDefinitions, suvestineUsed, dokumentasUsed,
             seedDir, sourceDir, summaryFile, skippedFile, runs, summaryBefore,
             skipLatest, seedWrites, sourceWrites, idsWritten, resumeLog,
             seedDirBefore, sourceDirBefore>>

VARIABLES
    \* ---- the segmenter and the status of a seed record, used in Part V ----
    spc,               \* position: "idle", "start", "articles", "parsed", "done"
    inputText,         \* parseLithuanianLawText: parameter text
    galioj_busena,     \* doc.galioj_busena
    headingLastIndex,  \* ARTICLE_HEADING.lastIndex (module state of parser.ts)
    relevantText,      \* parseLithuanianLawText: relevant
    chapterMarkers,    \* parseLithuanianLawText: chapters
    articleMarkers,    \* parseLithuanianLawText: markers
    markerIdx,         \* number of markers the for loop has handled
    provisions,        \* parseLithuanianLawText: provisions
    definitions,       \* parseLithuanianLawText: definitions (before the cap)
    parseResult,       \* the ParseResult returned
    seedStatus,        \* seed.status
    segmented          \* number of documents whose text this process has segmented

seedVars == <<spc, inputText, galioj_busena, headingLastIndex, relevantText,
              chapterMarkers, articleMarkers, markerIdx, provisions, definitions,
              parseResult, seedStatus, segmented>>

VARIABLES
    \* ---- the response metadata, used in Part VI ----
    mpc,               \* position: "idle", "call", "returned"
    metaDb,            \* generateResponseMetadata: parameter db
    metadata           \* the ResponseMetadata returned

metaVars == <<mpc, metaDb, metadata>>

\* the variables of Part II other than ipc, args, targetDocs, selectedByDocument
phaseVars == <<chunkIdx, editionsByDoc, selected, unresolved, round, candidates,
               roundExhausted, suvestineIds, textBySuvestine, unresolvedAfterRounds,
               fallbackSelected, textServed, textRequested, resolvedRound,
               fallbackRequested, parked, docServed>>


\* ------------------------------------------------------------------------
\* Rows.  The rows of the result set of one query are numbered 0, 1, 2, ...;
\* a page requested at offset o that carries n rows carries rows o .. o+n-1.
\* A sequence of rows is kept run-length encoded: a sequence of runs
\* <<lo, hi>> standing for rows lo, lo+1, ..., hi-1.
\* ------------------------------------------------------------------------
PageRows(o, n) == IF n = 0 THEN <<>> ELSE << <<o, o + n>> >>

RowCount(rle) ==
    LET RECURSIVE cnt(_)
        cnt(i) == IF i = 0 THEN 0 ELSE (rle[i][2] - rle[i][1]) + cnt(i - 1)
    IN cnt(Len(rle))

\* out.push(...rows)
Push(rle, rows) ==
    IF rows = <<>> THEN rle
    ELSE IF rle # <<>> /\ rle[Len(rle)][2] = rows[1][1]
         THEN [rle EXCEPT ![Len(rle)] = <<rle[Len(rle)][1], rows[1][2]>>]
         ELSE rle \o rows

\* Response.ok of the Fetch standard
ResponseOk(status) == status >= 200 /\ status <= 299

\* mutants of the retry condition: no retry ceiling; every failure retried
Retryable_NoCeiling(status, att) == (status = 429 \/ status >= 500) /\ att <= maxRetries
Retryable_AnyStatus(status, att) == att < maxRetries

\* the retry condition of fetchJson
Retryable(status, att) == (status = 429 \/ status >= 500) /\ att < maxRetries

\* buildUrl for one page of a paginated fetch
PageUrl(call, off, limit) == [call |-> call, offset |-> off, limit |-> limit]

NoUrl == PageUrl(0, 0, 0)
NoFailure == [kind |-> "none", status |-> 0, url |-> NoUrl]

\* the request of the set inflight (fpc = "inflight")
TheRequest == CHOOSE r \in inflight : TRUE

\* time a setTimeout(ms) sleep takes: at least ms
SleepTimes(ms) == {ms + o : o \in (IF endless THEN {0} ELSE Overshoots)}

\* time a response takes
ResponseTimes == IF endless THEN {0} ELSE Latencies

\* row counts a page may carry
RowCounts ==
    IF endless THEN {pageSize}
    ELSE {0, pageSize - 1} \cup (IF fullPages < MaxFullPages THEN {pageSize} ELSE {})

\* response envelopes of a success response: the _data array may be absent
\* when there are no rows
Payloads(off) ==
    {[hasData |-> TRUE, data |-> PageRows(off, n)] : n \in RowCounts}
    \cup (IF endless THEN {} ELSE {[hasData |-> FALSE, data |-> <<>>]})

\* payload._data ?? []
DataOrEmpty(payload) == IF payload.hasData THEN payload.data ELSE <<>>

\* mutant of the loop exit test: a full page ends the loop as well
ShortPage_OrFull(rows, ps) == RowCount(rows) <= ps

\* the loop exit test of fetchAllRows: rows.length < pageSize
ShortPage(rows, ps) == RowCount(rows) < ps

\* mutant of the runaway guard: the ceiling itself already counts as crossed
CeilingCrossed_AtCeiling(off) == off >= OffsetCeiling

\* the runaway guard of fetchAllRows: offset > 2_000_000
CeilingCrossed(off) == off > OffsetCeiling

\* a backoff that does not grow with the attempt
BackoffMs_Flat(att) == BackoffStepMs

\* the backoff of fetchJson: (attempt + 1) * 1500
BackoffMs(att) == (att + 1) * BackoffStepMs

NoResp == [kind |-> "none", status |-> 0, rows |-> <<>>, got |-> <<>>,
           url |-> NoUrl, attempt |-> 0, at |-> 0, outcome |-> "none"]

\* ------------------------------------------------------------------------
\* Init
\* ------------------------------------------------------------------------
InitFetch ==
    /\ now = StartClock
    /\ lastRequestAt = 0
    /\ fpc = "idle"
    /\ endless \in BOOLEAN
    /\ pageSize = 0
    /\ offset = 0
    /\ out = <<>>
    /\ attempt = 0
    /\ inflight = {}
    /\ returned = FALSE
    /\ result = <<>>
    /\ failure = NoFailure
    /\ calls = 0
    /\ faults = 0
    /\ fullPages = 0
    /\ reqInCall = 0
    /\ reqInJson = 0
    /\ prevStart = NoTime
    /\ lastStart = NoTime
    /\ lastGap = None
    /\ served = 0
    /\ lastResp = NoResp
    /\ waited = 0
    /\ backoffSpent = 0

\* ------------------------------------------------------------------------
\* fetchAllRows(model, params, pageSize): entry
\* ------------------------------------------------------------------------
fetchAllRows ==
    /\ fpc = "idle"
    /\ calls < MaxCalls
    /\ \E ps \in PageSizes : pageSize' = ps
    /\ calls' = calls + 1
    /\ offset' = 0
    /\ out' = <<>>
    /\ served' = 0
    /\ attempt' = 0
    /\ result' = <<>>
    /\ returned' = FALSE
    /\ fullPages' = 0
    /\ reqInCall' = 0
    /\ reqInJson' = 0
    /\ waited' = 0
    /\ backoffSpent' = 0
    /\ lastResp' = NoResp
    /\ lastGap' = IF lastStart = NoTime THEN None ELSE "call"
    /\ fpc' = "limit"
    /\ UNCHANGED <<now, lastRequestAt, endless, inflight, failure, faults,
                   prevStart, lastStart>>
    /\ UNCHANGED <<ingestVars, idVars, runVars, seedVars, metaVars>>

\* ------------------------------------------------------------------------
\* mutant of rateLimit: lastRequestAt is stamped with the time read before
\* the sleep instead of a fresh Date.now()
\* ------------------------------------------------------------------------
rateLimit_StaleStamp ==
    /\ fpc = "limit"
    /\ LET elapsed == now - lastRequestAt
       IN IF elapsed < MIN_DELAY_MS
          THEN \E t \in SleepTimes(MIN_DELAY_MS - elapsed) : now' = now + t
          ELSE now' = now
    /\ lastRequestAt' = now
    /\ fpc' = "send"
    /\ UNCHANGED <<endless, pageSize, offset, out, attempt, inflight, returned,
                   result, failure, calls, faults, fullPages, reqInCall, reqInJson,
                   prevStart, lastStart, lastGap, served, lastResp, waited, backoffSpent>>
    /\ UNCHANGED <<ingestVars, idVars, runVars, seedVars, metaVars>>

\* ------------------------------------------------------------------------
\* rateLimit(): called at the top of every iteration of fetchJson's loop
\* ------------------------------------------------------------------------
rateLimit ==
    /\ fpc = "limit"
    /\ LET elapsed == now - lastRequestAt
       IN IF elapsed < MIN_DELAY_MS
          THEN \E t \in SleepTimes(MIN_DELAY_MS - elapsed) :
                  /\ now' = now + t
                  /\ lastRequestAt' = now + t
          ELSE /\ now' = now
               /\ lastRequestAt' = now
    /\ fpc' = "send"
    /\ UNCHANGED <<endless, pageSize, offset, out, attempt, inflight, returned,
                   result, failure, calls, faults, fullPages, reqInCall, reqInJson,
                   prevStart, lastStart, lastGap, served, lastResp, waited, backoffSpent>>
    /\ UNCHANGED <<ingestVars, idVars, runVars, seedVars, metaVars>>

\* ------------------------------------------------------------------------
\* mutant of sendRequest: the response is not awaited
\* ------------------------------------------------------------------------
sendRequest_NoAwait ==
    /\ fpc = "send"
    /\ inflight' = inflight \cup {[url |-> PageUrl(calls, offset, pageSize),
                                     start |-> now, attempt |-> attempt]}
    /\ prevStart' = lastStart
    /\ lastStart' = now
    /\ reqInCall' = reqInCall + 1
    /\ reqInJson' = reqInJson + 1
    /\ fpc' = "limit"
    /\ UNCHANGED <<now, lastRequestAt, endless, pageSize, offset, out, attempt,
                   returned, result, failure, calls, faults, fullPages, lastGap,
                   served, lastResp, waited, backoffSpent>>
    /\ UNCHANGED <<ingestVars, idVars, runVars, seedVars, metaVars>>

\* ------------------------------------------------------------------------
\* fetchJson: fetch(url, ...) is called; the request is on the wire
\* ------------------------------------------------------------------------
sendRequest ==
    /\ fpc = "send"
    /\ inflight' = inflight \cup {[url |-> PageUrl(calls, offset, pageSize),
                                     start |-> now, attempt |-> attempt]}
    /\ prevStart' = lastStart
    /\ lastStart' = now
    /\ reqInCall' = reqInCall + 1
    /\ reqInJson' = reqInJson + 1
    /\ fpc' = "inflight"
    /\ UNCHANGED <<now, lastRequestAt, endless, pageSize, offset, out, attempt,
                   returned, result, failure, calls, faults, fullPages, lastGap,
                   served, lastResp, waited, backoffSpent>>
    /\ UNCHANGED <<ingestVars, idVars, runVars, seedVars, metaVars>>

\* ------------------------------------------------------------------------
\* fetchJson: the transport raises instead of delivering a response.
\* `await fetch(...)` is not inside a try block: the rejection leaves
\* fetchJson, fetchAllRows and main.
\* ------------------------------------------------------------------------
networkFailure ==
    /\ fpc = "inflight"
    /\ faults < MaxFaults
    /\ \E t \in ResponseTimes : now' = now + t
    /\ faults' = faults + 1
    /\ failure' = [kind |-> "network", status |-> 0, url |-> TheRequest.url]
    /\ inflight' = {}
    /\ lastResp' = [kind |-> "network", status |-> 0, rows |-> <<>>, got |-> <<>>,
                     url |-> TheRequest.url, attempt |-> attempt, at |-> now',
                     outcome |-> "throw"]
    /\ fpc' = "aborted"
    /\ UNCHANGED <<lastRequestAt, endless, pageSize, offset, out, attempt, returned,
                   result, calls, fullPages, reqInCall, reqInJson, prevStart, lastStart,
                   lastGap, served, waited, backoffSpent>>
    /\ UNCHANGED <<ingestVars, idVars, runVars, seedVars, metaVars>>

\* ------------------------------------------------------------------------
\* fetchJson: a response with a non-success status arrives
\* ------------------------------------------------------------------------
errorResponse ==
    /\ fpc = "inflight"
    /\ faults < MaxFaults
    /\ \E t \in ResponseTimes : now' = now + t
    /\ faults' = faults + 1
    /\ inflight' = {}
    /\ \E status \in {s \in Statuses : ~ResponseOk(s)} :
          LET resp(how) == [kind |-> "http", status |-> status, rows |-> <<>>,
                            got |-> <<>>, url |-> TheRequest.url,
                            attempt |-> attempt, at |-> now', outcome |-> how]
          IN IF Retryable(status, attempt)
             THEN /\ fpc' = "backoff"
                  /\ lastResp' = resp("retry")
                  /\ failure' = failure
             ELSE /\ fpc' = "aborted"
                  /\ lastResp' = resp("throw")
                  /\ failure' = [kind |-> "http", status |-> status,
                                  url |-> TheRequest.url]
    /\ UNCHANGED <<lastRequestAt, endless, pageSize, offset, out, attempt, returned,
                   result, calls, fullPages, reqInCall, reqInJson, prevStart, lastStart,
                   lastGap, served, waited, backoffSpent>>
    /\ UNCHANGED <<ingestVars, idVars, runVars, seedVars, metaVars>>

\* ------------------------------------------------------------------------
\* fetchJson: await sleep((attempt + 1) * 1500); continue
\* ------------------------------------------------------------------------
backoff ==
    /\ fpc = "backoff"
    /\ \E t \in SleepTimes(BackoffMs(attempt)) :
          /\ now' = now + t
          /\ waited' = t
          /\ backoffSpent' = backoffSpent + t
    /\ attempt' = attempt + 1
    /\ lastGap' = "retry"
    /\ fpc' = "limit"
    /\ UNCHANGED <<lastRequestAt, endless, pageSize, offset, out, inflight, returned,
                   result, failure, calls, faults, fullPages, reqInCall, reqInJson,
                   prevStart, lastStart, served, lastResp>>
    /\ UNCHANGED <<ingestVars, idVars, runVars, seedVars, metaVars>>

\* ------------------------------------------------------------------------
\* fetchJson returns `payload._data ?? []` of a success response, and
\* fetchAllRows continues synchronously: push, short-page test, offset
\* step, ceiling test.
\* ------------------------------------------------------------------------
successResponse ==
    /\ fpc = "inflight"
    /\ \E t \in ResponseTimes : now' = now + t
    /\ inflight' = {}
    /\ \E status \in {s \in Statuses : ResponseOk(s)},
          payload \in Payloads(TheRequest.url.offset) :
         LET rows == DataOrEmpty(payload)
             newOut == Push(out, rows)
             resp(how) == [kind |-> "http", status |-> status, rows |-> payload.data,
                           got |-> rows, url |-> TheRequest.url,
                           attempt |-> attempt, at |-> now', outcome |-> how]
         IN /\ out' = newOut
            /\ served' = served + RowCount(payload.data)
            /\ fullPages' = IF RowCount(payload.data) >= pageSize
                            THEN fullPages + 1 ELSE fullPages
            /\ IF ShortPage(rows, pageSize)
               THEN \* break; return out
                    /\ result' = newOut
                    /\ returned' = TRUE
                    /\ offset' = offset
                    /\ failure' = failure
                    /\ lastResp' = resp("return")
                    /\ fpc' = "idle"
               ELSE /\ offset' = offset + pageSize
                    /\ result' = result
                    /\ returned' = FALSE
                    /\ IF CeilingCrossed(offset + pageSize)
                       THEN /\ failure' = [kind |-> "pagination", status |-> 0,
                                           url |-> TheRequest.url]
                            /\ lastResp' = resp("throw")
                            /\ fpc' = "aborted"
                       ELSE /\ failure' = failure
                            /\ lastResp' = resp("page")
                            /\ fpc' = "limit"
    /\ attempt' = 0
    /\ reqInJson' = 0
    /\ waited' = 0
    /\ backoffSpent' = 0
    /\ lastGap' = "page"
    /\ UNCHANGED <<lastRequestAt, endless, pageSize, calls, faults, reqInCall,
                   prevStart, lastStart>>
    /\ UNCHANGED <<ingestVars, idVars, runVars, seedVars, metaVars>>

NextFetch ==
    \/ fetchAllRows
    \/ rateLimit
    \/ sendRequest
    \/ networkFailure
    \/ errorResponse
    \/ backoff
    \/ successResponse


\* ========================================================================
\* Part II: edition metadata, edition resolver, document fallback
\*          (scripts/ingest.ts)
\* ========================================================================

\* the corpus: two documents, "d1" being a law of the KNOWN_LAWS table
CorpusDocs == <<"d1", "d2">>

\* KNOWN_BY_DOCUMENT, reduced to the fields the resolver reads
KNOWN_BY_DOCUMENT == [d \in {"d1"} |-> [documentId |-> "d1", preferredEditionId |-> "e2"]]

\* bounds of the upstream data
\* rows the Suvestine model holds for the known document
MaxRows == 3
\* galioja_nuo dates are 1 .. MaxDate (ISO dates compare as these numbers do)
MaxDate == 2
\* largest value of --max-suvestine-rounds
MaxRoundsArg == 2

ChunkSizes == {1, 2}

\* edition identifiers the registry holds per document
EditionIds(d) == IF d = "d1" THEN {"e1", "e2", "e3"} ELSE {"e4"}
AllEditionIds == UNION {EditionIds(CorpusDocs[k]) : k \in 1..Len(CorpusDocs)}

\* galioja_iki of an edition: null for the one in force ("e3", "e4"), a date otherwise
Null == 0
GaliojaIki(e) == IF e \in {"e3", "e4"} THEN Null ELSE MaxDate + 1

NullLink == <<>>
MetaLink(e) == <<"suvestine", e>>
TextLink(e) == <<"suvestine-text", e>>
DocLink(d) == <<"dokumentas", d>>

\* EditionRecord rows the server may return for document d
MetaRows(d) ==
    {[dokumento_id |-> d, suvestines_id |-> e, galioja_nuo |-> n,
      galioja_iki |-> GaliojaIki(e), nuoroda |-> MetaLink(e)] :
        e \in EditionIds(d), n \in 1..MaxDate}

SeqsUpTo(S, n) == UNION {[1..k -> S] : k \in 0..n}

MetaRowLists(d) == SeqsUpTo(MetaRows(d), IF d = "d1" THEN MaxRows ELSE 1)

\* texts: sequences of characters
Blank == <<" ">>
Padded == <<" ", "a", " ">>

\* String.prototype.trim
RECURSIVE TrimLeft(_)
TrimLeft(t) == IF t # <<>> /\ Head(t) = " " THEN TrimLeft(Tail(t)) ELSE t
RECURSIVE TrimRight(_)
TrimRight(t) ==
    IF t # <<>> /\ t[Len(t)] = " " THEN TrimRight(SubSeq(t, 1, Len(t) - 1)) ELSE t
\* mutant of trim: whitespace is kept
Trim_Identity(t) == t

Trim(t) == TrimRight(TrimLeft(t))

\* what the server returns for one identifier of a text query: no row, or a
\* row with its text (null text and empty text behave alike) and its link
NoRow == [present |-> FALSE, tekstas_lt |-> <<>>, nuoroda |-> NullLink]
TextRows(link) ==
    {NoRow,
     [present |-> TRUE, tekstas_lt |-> Blank, nuoroda |-> link],
     [present |-> TRUE, tekstas_lt |-> Padded, nuoroda |-> link],
     [present |-> TRUE, tekstas_lt |-> Padded, nuoroda |-> NullLink]}

\* ------------------------------------------------------------------------
\* helpers
\* ------------------------------------------------------------------------
Range(q) == {q[k] : k \in 1..Len(q)}
EmptyMap == [x \in {} |-> 0]
\* Map.get(k) ?? dflt
GetOr(m, k, dflt) == IF k \in DOMAIN m THEN m[k] ELSE dflt
\* Map.set(k, v)
MapSet(m, k, v) == [x \in (DOMAIN m) \cup {k} |-> IF x = k THEN v ELSE m[x]]

RECURSIVE Flatten(_)
Flatten(qq) == IF qq = <<>> THEN <<>> ELSE Head(qq) \o Flatten(Tail(qq))

RECURSIVE SelectSeqBy(_, _)
\* Array.prototype.filter for a predicate given as the set of kept values
SelectSeqBy(q, keep) ==
    IF q = <<>> THEN <<>>
    ELSE (IF Head(q) \in keep THEN <<Head(q)>> ELSE <<>>) \o SelectSeqBy(Tail(q), keep)

\* chunkArray(items, chunkSize)
RECURSIVE chunkArray(_, _)
chunkArray(items, chunkSize) ==
    IF items = <<>> THEN <<>>
    ELSE IF Len(items) <= chunkSize THEN <<items>>
    ELSE <<SubSeq(items, 1, chunkSize)>>
         \o chunkArray(SubSeq(items, chunkSize + 1, Len(items)), chunkSize)

\* index of the first element of q with the given suvestines_id, 0 if none
\* (Array.prototype.findIndex, 1-based)
FindIndex(q, id) ==
    LET hits == {k \in 1..Len(q) : q[k].suvestines_id = id}
    IN IF hits = {} THEN 0 ELSE CHOOSE k \in hits : \A j \in hits : k <= j

\* the dedupe Map of collectSuvestineMetadata: one entry per suvestines_id,
\* at the position of its first row, holding the first row with the
\* greatest galioja_nuo
RECURSIVE Dedupe(_, _)
Dedupe(list, acc) ==
    IF list = <<>> THEN acc
    ELSE LET item == Head(list)
             k == FindIndex(acc, item.suvestines_id)
         IN Dedupe(Tail(list),
                   IF k = 0 THEN Append(acc, item)
                   ELSE IF item.galioja_nuo > acc[k].galioja_nuo
                        THEN [acc EXCEPT ![k] = item]
                        ELSE acc)

\* mutant of the sort: oldest first
RECURSIVE sortEditionsNewestFirst_Oldest(_)
sortEditionsNewestFirst_Oldest(editions) ==
    IF editions = <<>> THEN <<>>
    ELSE LET rest == sortEditionsNewestFirst_Oldest(SubSeq(editions, 1, Len(editions) - 1))
             x == editions[Len(editions)]
             before == {k \in 1..Len(rest) : rest[k].galioja_nuo <= x.galioja_nuo}
             n == Cardinality(before)
         IN SubSeq(rest, 1, n) \o <<x>> \o SubSeq(rest, n + 1, Len(rest))

\* sortEditionsNewestFirst: a stable sort, galioja_nuo descending
RECURSIVE sortEditionsNewestFirst(_)
sortEditionsNewestFirst(editions) ==
    IF editions = <<>> THEN <<>>
    ELSE LET rest == sortEditionsNewestFirst(SubSeq(editions, 1, Len(editions) - 1))
             x == editions[Len(editions)]
             \* x goes behind every element that is not older than x
             before == {k \in 1..Len(rest) : rest[k].galioja_nuo >= x.galioja_nuo}
             n == Cardinality(before)
         IN SubSeq(rest, 1, n) \o <<x>> \o SubSeq(rest, n + 1, Len(rest))

\* mutant of the pinning: the preferred edition is swapped with the front one
PinPreferred_Swap(sorted, preferredEditionId) ==
    LET idx == FindIndex(sorted, preferredEditionId)
    IN IF idx > 1
       THEN [sorted EXCEPT ![1] = sorted[idx], ![idx] = sorted[1]]
       ELSE sorted

\* if (idx > 0) { [preferred] = sorted.splice(idx, 1); sorted.unshift(preferred) }
PinPreferred(sorted, preferredEditionId) ==
    LET idx == FindIndex(sorted, preferredEditionId)
    IN IF idx > 1
       THEN <<sorted[idx]>> \o SubSeq(sorted, 1, idx - 1)
                            \o SubSeq(sorted, idx + 1, Len(sorted))
       ELSE sorted

\* the second loop of collectSuvestineMetadata, for one document
EditionList(docId, list) ==
    LET sorted == sortEditionsNewestFirst(Dedupe(list, <<>>))
    IN IF docId \in DOMAIN KNOWN_BY_DOCUMENT
       THEN PinPreferred(sorted, KNOWN_BY_DOCUMENT[docId].preferredEditionId)
       ELSE sorted

\* window slices of the corpus: corpusDocs.slice(start, start + limit) / slice(start)
Windows ==
    {SubSeq(CorpusDocs, st + 1, Len(CorpusDocs)) : st \in 0..Len(CorpusDocs)}
    \cup {SubSeq(CorpusDocs, st + 1, st + 1) : st \in 0..(Len(CorpusDocs) - 1)}

InitIngest ==
    /\ ipc = "meta"
    /\ args \in [chunkDocs : ChunkSizes, chunkTexts : ChunkSizes,
                 maxSuvestineRounds : 1..MaxRoundsArg]
    /\ targetDocs \in Windows
    /\ chunkIdx = 0
    /\ editionsByDoc = EmptyMap
    /\ selected = EmptyMap
    /\ unresolved = <<>>
    /\ round = 0
    /\ candidates = <<>>
    /\ roundExhausted = <<>>
    /\ suvestineIds = <<>>
    /\ textBySuvestine = EmptyMap
    /\ unresolvedAfterRounds = <<>>
    /\ fallbackSelected = EmptyMap
    /\ selectedByDocument = EmptyMap
    /\ textServed = EmptyMap
    /\ textRequested = <<>>
    /\ resolvedRound = EmptyMap
    /\ fallbackRequested = {}
    /\ parked = {}
    /\ docServed = EmptyMap


\* the state of main() while only the fetch client is exercised
IngestIdle ==
    /\ ipc = "idle"
    /\ args = [chunkDocs |-> 1, chunkTexts |-> 1, maxSuvestineRounds |-> 1]
    /\ targetDocs = <<>>
    /\ chunkIdx = 0
    /\ editionsByDoc = EmptyMap
    /\ selected = EmptyMap
    /\ unresolved = <<>>
    /\ round = 0
    /\ candidates = <<>>
    /\ roundExhausted = <<>>
    /\ suvestineIds = <<>>
    /\ textBySuvestine = EmptyMap
    /\ unresolvedAfterRounds = <<>>
    /\ fallbackSelected = EmptyMap
    /\ selectedByDocument = EmptyMap
    /\ textServed = EmptyMap
    /\ textRequested = <<>>
    /\ resolvedRound = EmptyMap
    /\ fallbackRequested = {}
    /\ parked = {}
    /\ docServed = EmptyMap

\* answers of the server to a query over the identifiers of chunk: one
\* choice out of Options(id) per identifier
RECURSIVE Choices(_)
Choices(options) ==
    IF options = <<>> THEN {<<>>}
    ELSE {<<a>> \o rest : a \in Head(options), rest \in Choices(Tail(options))}

Answers(chunk, Options(_)) == Choices([k \in 1..Len(chunk) |-> Options(chunk[k])])

\* for (const row of rows) { list = byDoc.get(id) ?? []; list.push(row); byDoc.set(id, list) }
RECURSIVE AddRows(_, _)
AddRows(byDoc, rows) ==
    IF rows = <<>> THEN byDoc
    ELSE LET row == Head(rows)
         IN AddRows(MapSet(byDoc, row.dokumento_id,
                           Append(GetOr(byDoc, row.dokumento_id, <<>>), row)),
                    Tail(rows))

MetaChunks == chunkArray(targetDocs, args.chunkDocs)

\* ------------------------------------------------------------------------
\* collectSuvestineMetadata: one iteration of the chunk loop
\* (await fetchSuvestineMetadataByDocumentIds(chunk) returned its rows)
\* ------------------------------------------------------------------------
collectSuvestineMetadata_chunk ==
    /\ ipc = "meta"
    /\ chunkIdx < Len(MetaChunks)
    /\ \E lists \in Answers(MetaChunks[chunkIdx + 1], MetaRowLists) :
          editionsByDoc' = AddRows(editionsByDoc, Flatten(lists))
    /\ chunkIdx' = chunkIdx + 1
    /\ UNCHANGED <<ipc, args, targetDocs, selected, unresolved, round, candidates,
                   roundExhausted, suvestineIds, textBySuvestine,
                   unresolvedAfterRounds, fallbackSelected, selectedByDocument,
                   textServed, textRequested, resolvedRound, fallbackRequested,
                   parked>>
    /\ UNCHANGED docServed
    /\ UNCHANGED <<fetchVars, idVars, runVars, seedVars, metaVars>>

\* ------------------------------------------------------------------------
\* collectSuvestineMetadata: the second loop (dedupe, sort, pin) and return
\* ------------------------------------------------------------------------
collectSuvestineMetadata_finish ==
    /\ ipc = "meta"
    /\ chunkIdx = Len(MetaChunks)
    /\ editionsByDoc' =
          [d \in (DOMAIN editionsByDoc) \cup Range(targetDocs) |->
              IF d \in Range(targetDocs)
              THEN EditionList(d, GetOr(editionsByDoc, d, <<>>))
              ELSE editionsByDoc[d]]
    /\ ipc' = "resolve"
    /\ UNCHANGED <<args, targetDocs, chunkIdx, selected, unresolved, round,
                   candidates, roundExhausted, suvestineIds, textBySuvestine,
                   unresolvedAfterRounds, fallbackSelected, selectedByDocument,
                   textServed, textRequested, resolvedRound, fallbackRequested,
                   parked>>
    /\ UNCHANGED docServed
    /\ UNCHANGED <<fetchVars, idVars, runVars, seedVars, metaVars>>

\* ------------------------------------------------------------------------
\* resolveSuvestineSources: entry (selected, initiallyResolvable, round)
\* ------------------------------------------------------------------------
resolveSuvestineSources_enter ==
    /\ ipc = "resolve"
    /\ selected' = EmptyMap
    /\ unresolved' = SelectSeqBy(targetDocs,
                        {d \in Range(targetDocs) : Len(GetOr(editionsByDoc, d, <<>>)) > 0})
    /\ round' = 0
    /\ ipc' = "round"
    /\ UNCHANGED <<args, targetDocs, chunkIdx, editionsByDoc, candidates,
                   roundExhausted, suvestineIds, textBySuvestine,
                   unresolvedAfterRounds, fallbackSelected, selectedByDocument,
                   textServed, textRequested, resolvedRound, fallbackRequested,
                   parked>>
    /\ UNCHANGED docServed
    /\ UNCHANGED <<fetchVars, idVars, runVars, seedVars, metaVars>>

\* candidates of a round: <<docId, edition>> in the order of unresolved
RECURSIVE CollectCandidates(_, _)
CollectCandidates(docIds, r) ==
    IF docIds = <<>> THEN <<>>
    ELSE LET list == GetOr(editionsByDoc, Head(docIds), <<>>)
         IN (IF Len(list) > r THEN << <<Head(docIds), list[r + 1]>> >> ELSE <<>>)
            \o CollectCandidates(Tail(docIds), r)

\* Array.from(new Set(ids)): first occurrences, in order
RECURSIVE Unique(_, _)
Unique(q, seen) ==
    IF q = <<>> THEN <<>>
    ELSE IF Head(q) \in seen THEN Unique(Tail(q), seen)
    ELSE <<Head(q)>> \o Unique(Tail(q), seen \cup {Head(q)})

CandidateIds(cands) == Unique([k \in 1..Len(cands) |-> cands[k][2].suvestines_id], {})

\* mutant of the loop test: one round more than maxRounds
RoundsRemain_OneMore(unres, r) == Len(unres) > 0 /\ r <= args.maxSuvestineRounds

\* while (unresolved.length > 0 && round < maxRounds)
RoundsRemain(unres, r) == Len(unres) > 0 /\ r < args.maxSuvestineRounds

\* ------------------------------------------------------------------------
\* resolveSuvestineSources: top of the while loop, candidate collection;
\* on loop exit the function returns selected and unresolvedAfterRounds
\* ------------------------------------------------------------------------
resolveSuvestineSources_round ==
    /\ ipc = "round"
    /\ LET cands == CollectCandidates(unresolved, round)
           exhausted == SelectSeqBy(unresolved,
                           {d \in Range(unresolved) :
                               Len(GetOr(editionsByDoc, d, <<>>)) <= round})
       IN IF RoundsRemain(unresolved, round) /\ cands # <<>>
          THEN /\ candidates' = cands
               /\ roundExhausted' = exhausted
               /\ parked' = parked \cup Range(exhausted)
               /\ suvestineIds' = CandidateIds(cands)
               /\ textBySuvestine' = EmptyMap
               /\ chunkIdx' = 0
               /\ ipc' = "texts"
               /\ UNCHANGED unresolvedAfterRounds
          ELSE /\ unresolvedAfterRounds' =
                      SelectSeqBy(targetDocs, Range(targetDocs) \ DOMAIN selected)
               /\ parked' = IF RoundsRemain(unresolved, round)
                            THEN parked \cup Range(exhausted) ELSE parked
               /\ chunkIdx' = 0
               /\ ipc' = "fallback"
               /\ UNCHANGED <<candidates, roundExhausted, suvestineIds, textBySuvestine>>
    /\ UNCHANGED <<args, targetDocs, editionsByDoc, selected, unresolved, round,
                   fallbackSelected, selectedByDocument, textServed, textRequested,
                   resolvedRound, fallbackRequested>>
    /\ UNCHANGED docServed
    /\ UNCHANGED <<fetchVars, idVars, runVars, seedVars, metaVars>>

\* mutant of the text chunking: the last chunk of a round is not fetched
TextChunks_DropLast ==
    LET all == chunkArray(suvestineIds, args.chunkTexts)
    IN SubSeq(all, 1, Len(all) - 1)

TextChunks == chunkArray(suvestineIds, args.chunkTexts)

EditionTextRows(e) == TextRows(TextLink(e))

\* for (const row of rows) textBySuvestine.set(row.suvestines_id, row)
RECURSIVE SetRows(_, _, _)
SetRows(m, ids, rows) ==
    IF ids = <<>> THEN m
    ELSE SetRows(IF Head(rows).present THEN MapSet(m, Head(ids), Head(rows)) ELSE m,
                 Tail(ids), Tail(rows))

RECURSIVE LogRows(_, _, _)
LogRows(m, ids, rows) ==
    IF ids = <<>> THEN m
    ELSE LogRows(MapSet(m, Head(ids), Head(rows)), Tail(ids), Tail(rows))

\* ------------------------------------------------------------------------
\* resolveSuvestineSources: one iteration of the text chunk loop
\* (await fetchSuvestineTextsByIds(chunk) returned its rows)
\* ------------------------------------------------------------------------
resolveSuvestineSources_texts ==
    /\ ipc = "texts"
    /\ chunkIdx < Len(TextChunks)
    /\ LET chunk == TextChunks[chunkIdx + 1]
       IN /\ \E rows \in Answers(chunk, EditionTextRows) :
                /\ textBySuvestine' = SetRows(textBySuvestine, chunk, rows)
                /\ textServed' = LogRows(textServed, chunk, rows)
          /\ textRequested' = textRequested \o chunk
    /\ chunkIdx' = chunkIdx + 1
    /\ UNCHANGED <<ipc, args, targetDocs, editionsByDoc, selected, unresolved, round,
                   candidates, roundExhausted, suvestineIds, unresolvedAfterRounds,
                   fallbackSelected, selectedByDocument, resolvedRound,
                   fallbackRequested, parked>>
    /\ UNCHANGED docServed
    /\ UNCHANGED <<fetchVars, idVars, runVars, seedVars, metaVars>>

\* row?.nuoroda ?? edition.nuoroda
SourceUrl(row, edition) ==
    IF row.present /\ row.nuoroda # NullLink THEN row.nuoroda ELSE edition.nuoroda

\* mutant of the carry test: the document is carried only if two more editions remain
HasMore_OffByOne(docId, r) == Len(GetOr(editionsByDoc, docId, <<>>)) > r + 2

\* mutant of the carry test: every unresolved document is carried
HasMore_Always(docId, r) == TRUE

\* the carry test against this round's position instead of the next one's
HasMore_ThisRound(docId, r) == Len(GetOr(editionsByDoc, docId, <<>>)) > r

\* const hasMore = list.length > round + 1
HasMore(docId, r) == Len(GetOr(editionsByDoc, docId, <<>>)) > r + 1

\* the loop over candidates without its continue: a document that was
\* selected is carried like one that was not
RECURSIVE Bookkeeping_CarrySelected(_, _, _)
Bookkeeping_CarrySelected(cands, sel, next) ==
    IF cands = <<>> THEN [selected |-> sel, nextUnresolved |-> next]
    ELSE LET docId == Head(cands)[1]
             edition == Head(cands)[2]
             row == GetOr(textBySuvestine, edition.suvestines_id, NoRow)
             text == Trim(row.tekstas_lt)
         IN Bookkeeping_CarrySelected(
                Tail(cands),
                IF Len(text) > 0
                THEN MapSet(sel, docId,
                            [sourceModel |-> "Suvestine",
                             sourceUrl |-> SourceUrl(row, edition),
                             text |-> text,
                             edition |-> edition])
                ELSE sel,
                IF HasMore(docId, round) THEN Append(next, docId) ELSE next)

\* the loop over candidates after the text fetches of a round
RECURSIVE Bookkeeping(_, _, _)
Bookkeeping(cands, sel, next) ==
    IF cands = <<>> THEN [selected |-> sel, nextUnresolved |-> next]
    ELSE LET docId == Head(cands)[1]
             edition == Head(cands)[2]
             row == GetOr(textBySuvestine, edition.suvestines_id, NoRow)
             text == Trim(row.tekstas_lt)
         IN IF Len(text) > 0
            THEN Bookkeeping(Tail(cands),
                             MapSet(sel, docId,
                                    [sourceModel |-> "Suvestine",
                                     sourceUrl |-> SourceUrl(row, edition),
                                     text |-> text,
                                     edition |-> edition]),
                             next)
            ELSE Bookkeeping(Tail(cands), sel,
                             IF HasMore(docId, round) THEN Append(next, docId) ELSE next)

\* ------------------------------------------------------------------------
\* resolveSuvestineSources: end of a round (selected / nextUnresolved / round++)
\* ------------------------------------------------------------------------
resolveSuvestineSources_bookkeeping ==
    /\ ipc = "texts"
    /\ chunkIdx = Len(TextChunks)
    /\ LET b == Bookkeeping(candidates, selected, <<>>)
           carriedExhausted == SelectSeqBy(roundExhausted,
                                  {d \in Range(roundExhausted) : HasMore(d, round)})
       IN /\ selected' = b.selected
          /\ unresolved' = b.nextUnresolved \o carriedExhausted
          /\ resolvedRound' =
                [d \in DOMAIN b.selected |->
                    IF d \in DOMAIN resolvedRound THEN resolvedRound[d] ELSE round]
    /\ round' = round + 1
    /\ ipc' = "round"
    /\ UNCHANGED <<args, targetDocs, chunkIdx, editionsByDoc, candidates,
                   roundExhausted, suvestineIds, textBySuvestine,
                   unresolvedAfterRounds, fallbackSelected, selectedByDocument,
                   textServed, textRequested, fallbackRequested, parked>>
    /\ UNCHANGED docServed
    /\ UNCHANGED <<fetchVars, idVars, runVars, seedVars, metaVars>>

FallbackChunks == chunkArray(unresolvedAfterRounds, args.chunkDocs)

DocumentTextRows(d) == TextRows(DocLink(d))

NoEdition == [dokumento_id |-> "", suvestines_id |-> "", galioja_nuo |-> 0,
              galioja_iki |-> Null, nuoroda |-> NullLink]

\* the row loop of resolveDocumentFallbackSources
RECURSIVE FallbackRows(_, _, _)
FallbackRows(sel, ids, rows) ==
    IF ids = <<>> THEN sel
    ELSE LET row == Head(rows)
             text == Trim(row.tekstas_lt)
         IN FallbackRows(IF row.present /\ Len(text) > 0
                         THEN MapSet(sel, Head(ids),
                                     [sourceModel |-> "Dokumentas",
                                      sourceUrl |-> row.nuoroda,
                                      text |-> text,
                                      edition |-> NoEdition])
                         ELSE sel,
                         Tail(ids), Tail(rows))

\* rows of documents the query did not name that the server may add to its
\* answer: none, or one row with text for a target document the resolver
\* has already selected (the row loop takes every row it is handed)
UnrequestedRows ==
    {[ids |-> <<>>, rows |-> <<>>]}
    \cup {[ids |-> <<d>>,
           rows |-> <<[present |-> TRUE, tekstas_lt |-> Padded, nuoroda |-> DocLink(d)]>>] :
             d \in Range(targetDocs) \ Range(unresolvedAfterRounds)}

\* ------------------------------------------------------------------------
\* resolveDocumentFallbackSources: one iteration of the chunk loop
\* (await fetchDocumentTextsByIds(chunk) returned its rows)
\* ------------------------------------------------------------------------
resolveDocumentFallbackSources_chunk ==
    /\ ipc = "fallback"
    /\ chunkIdx < Len(FallbackChunks)
    /\ LET chunk == FallbackChunks[chunkIdx + 1]
       IN /\ \E rows \in Answers(chunk, DocumentTextRows), extra \in UnrequestedRows :
                LET ids == chunk \o extra.ids
                    all == rows \o extra.rows
                IN /\ fallbackSelected' = FallbackRows(fallbackSelected, ids, all)
                   /\ docServed' = LogRows(docServed, ids, all)
          /\ fallbackRequested' = fallbackRequested \cup Range(chunk)
    /\ chunkIdx' = chunkIdx + 1
    /\ UNCHANGED <<ipc, args, targetDocs, editionsByDoc, selected, unresolved, round,
                   candidates, roundExhausted, suvestineIds, textBySuvestine,
                   unresolvedAfterRounds, selectedByDocument, textServed,
                   textRequested, resolvedRound, parked>>
    /\ UNCHANGED <<fetchVars, idVars, runVars, seedVars, metaVars>>

\* ------------------------------------------------------------------------
\* mutant of the merge: a fallback source replaces an edition-sourced one
\* ------------------------------------------------------------------------
mergeSelected_FallbackWins ==
    /\ ipc = "fallback"
    /\ chunkIdx = Len(FallbackChunks)
    /\ selectedByDocument' =
          [d \in (DOMAIN selected) \cup (DOMAIN fallbackSelected) |->
              IF d \in DOMAIN fallbackSelected THEN fallbackSelected[d] ELSE selected[d]]
    /\ ipc' = "merged"
    /\ UNCHANGED <<args, targetDocs, chunkIdx, editionsByDoc, selected, unresolved,
                   round, candidates, roundExhausted, suvestineIds, textBySuvestine,
                   unresolvedAfterRounds, fallbackSelected, textServed,
                   textRequested, resolvedRound, fallbackRequested, parked>>
    /\ UNCHANGED docServed
    /\ UNCHANGED <<fetchVars, idVars, runVars, seedVars, metaVars>>

\* ------------------------------------------------------------------------
\* main: merge of the edition-sourced and the fallback selections
\* ------------------------------------------------------------------------
mergeSelected ==
    /\ ipc = "fallback"
    /\ chunkIdx = Len(FallbackChunks)
    /\ selectedByDocument' =
          [d \in (DOMAIN selected) \cup (DOMAIN fallbackSelected) |->
              IF d \in DOMAIN selected THEN selected[d] ELSE fallbackSelected[d]]
    /\ ipc' = "merged"
    /\ UNCHANGED <<args, targetDocs, chunkIdx, editionsByDoc, selected, unresolved,
                   round, candidates, roundExhausted, suvestineIds, textBySuvestine,
                   unresolvedAfterRounds, fallbackSelected, textServed,
                   textRequested, resolvedRound, fallbackRequested, parked>>
    /\ UNCHANGED docServed
    /\ UNCHANGED <<fetchVars, idVars, runVars, seedVars, metaVars>>

\* ------------------------------------------------------------------------
\* a batched fetch throws (retry exhaustion, fatal status, pagination
\* guard, transport failure): main().catch ends the process
\* ------------------------------------------------------------------------
fetchThrows ==
    /\ \/ ipc = "meta" /\ chunkIdx < Len(MetaChunks)
       \/ ipc = "texts" /\ chunkIdx < Len(TextChunks)
       \/ ipc = "fallback" /\ chunkIdx < Len(FallbackChunks)
    /\ ipc' = "aborted"
    /\ UNCHANGED <<args, targetDocs, chunkIdx, editionsByDoc, selected, unresolved,
                   round, candidates, roundExhausted, suvestineIds, textBySuvestine,
                   unresolvedAfterRounds, fallbackSelected, selectedByDocument,
                   textServed, textRequested, resolvedRound, fallbackRequested,
                   parked>>
    /\ UNCHANGED docServed
    /\ UNCHANGED <<fetchVars, idVars, runVars, seedVars, metaVars>>

NextIngest ==
    \/ collectSuvestineMetadata_chunk
    \/ collectSuvestineMetadata_finish
    \/ resolveSuvestineSources_enter
    \/ resolveSuvestineSources_round
    \/ resolveSuvestineSources_texts
    \/ resolveSuvestineSources_bookkeeping
    \/ resolveDocumentFallbackSources_chunk
    \/ mergeSelected
    \/ fetchThrows

\* ========================================================================
\* Part III: identifier assignment (scripts/ingest.ts: slugify, buildAutoId,
\*           buildSeedIdMap)
\* ========================================================================

\* Strings are sequences of characters; a character is a one-letter string.
\* The Lithuanian letters are written as the base letter followed by a
\* mark: "a," (a ogonek), "c^" (c caron), "e," "e'" (e ogonek, e dot),
\* "i,", "s^", "u," "u_" (u ogonek, u macron), "z^"; capitals likewise.
UpperLetters == <<"A", "B", "C", "D", "E", "F", "G", "H", "I", "J", "K", "L", "M",
                  "N", "O", "P", "Q", "R", "S", "T", "U", "V", "W", "X", "Y", "Z",
                  "A,", "C^", "E,", "E'", "I,", "S^", "U,", "U_", "Z^">>
LowerLetters == <<"a", "b", "c", "d", "e", "f", "g", "h", "i", "j", "k", "l", "m",
                  "n", "o", "p", "q", "r", "s", "t", "u", "v", "w", "x", "y", "z",
                  "a,", "c^", "e,", "e'", "i,", "s^", "u,", "u_", "z^">>
DigitChars == <<"0", "1", "2", "3", "4", "5", "6", "7", "8", "9">>

\* String.prototype.toLowerCase, per character
ToLowerChar(c) ==
    IF \E k \in 1..Len(UpperLetters) : UpperLetters[k] = c
    THEN LowerLetters[CHOOSE k \in 1..Len(UpperLetters) : UpperLetters[k] = c]
    ELSE c

\* the nine replace() calls of slugify, per character
Transliterate(c) ==
    CASE c = "a," -> "a"
      [] c = "c^" -> "c"
      [] c = "e," -> "e"
      [] c = "e'" -> "e"
      [] c = "i," -> "i"
      [] c = "s^" -> "s"
      [] c = "u," -> "u"
      [] c = "u_" -> "u"
      [] c = "z^" -> "z"
      [] OTHER -> c

\* the character class [a-z0-9]
IsSlugChar(c) ==
    \/ \E k \in 1..26 : LowerLetters[k] = c
    \/ \E k \in 1..Len(DigitChars) : DigitChars[k] = c

\* .replace(/[^a-z0-9]+/g, '-'): every run of other characters becomes one '-'
RECURSIVE ReplaceRuns(_, _)
ReplaceRuns(str, acc) ==
    IF str = <<>> THEN acc
    ELSE IF IsSlugChar(Head(str)) THEN ReplaceRuns(Tail(str), Append(acc, Head(str)))
    ELSE IF Tail(str) # <<>> /\ ~IsSlugChar(Head(Tail(str)))
         THEN ReplaceRuns(Tail(str), acc)
         ELSE ReplaceRuns(Tail(str), Append(acc, "-"))

\* .replace(/^-+/, '')
RECURSIVE StripLeadingDashes(_)
StripLeadingDashes(str) ==
    IF str # <<>> /\ Head(str) = "-" THEN StripLeadingDashes(Tail(str)) ELSE str

\* .replace(/-+$/, '')
RECURSIVE StripTrailingDashes(_)
StripTrailingDashes(str) ==
    IF str # <<>> /\ str[Len(str)] = "-"
    THEN StripTrailingDashes(SubSeq(str, 1, Len(str) - 1)) ELSE str

\* .replace(/-{2,}/g, '-')
RECURSIVE CollapseDashes(_)
CollapseDashes(str) ==
    IF Len(str) < 2 THEN str
    ELSE IF str[1] = "-" /\ str[2] = "-" THEN CollapseDashes(Tail(str))
    ELSE <<Head(str)>> \o CollapseDashes(Tail(str))

\* mutant of slugify: letter case is kept, so capitals count as separators
slugify_KeepCase(input) ==
    CollapseDashes(StripTrailingDashes(StripLeadingDashes(
        ReplaceRuns([k \in 1..Len(input) |-> Transliterate(input[k])], <<>>))))

\* slugify(input)
slugify(input) ==
    LET normalized == [k \in 1..Len(input) |-> Transliterate(ToLowerChar(input[k]))]
    IN CollapseDashes(StripTrailingDashes(StripLeadingDashes(
           ReplaceRuns(normalized, <<>>))))

\* String(i) for a non-negative integer
RECURSIVE Decimal(_)
Decimal(i) ==
    IF i < 10 THEN <<DigitChars[i + 1]>>
    ELSE Decimal(i \div 10) \o <<DigitChars[(i % 10) + 1]>>

\* base.slice(0, n)
Slice(str, n) == SubSeq(str, 1, IF Len(str) < n THEN Len(str) ELSE n)

\* x || y for strings: the empty string is falsy
OrElse(x, y) == IF x # <<>> THEN x ELSE y

BaseMaxLen == 72
SuffixMaxLen == 10

\* the base of an automatic identifier
AutoBase(doc) ==
    LET raw == OrElse(Trim(doc.atv_dok_nr), doc.dokumento_id)
        base == <<"l", "t", "-", "l", "a", "w", "-">>
                   \o OrElse(OrElse(slugify(raw), slugify(doc.dokumento_id)),
                             <<"u", "n", "k", "n", "o", "w", "n">>)
    IN IF Len(base) > BaseMaxLen
       THEN StripTrailingDashes(Slice(base, BaseMaxLen))
       ELSE base

AutoSuffix(doc) == OrElse(Slice(slugify(doc.dokumento_id), SuffixMaxLen), <<"i", "d">>)

\* the while loop of buildAutoId: `${base}-${suffix}-${i}` for i = 2, 3, ...
RECURSIVE Disambiguate(_, _, _, _, _)
Disambiguate(candidate, base, suffix, i, usedIds) ==
    IF candidate \in usedIds
    THEN Disambiguate(base \o <<"-">> \o suffix \o <<"-">> \o Decimal(i),
                      base, suffix, i + 1, usedIds)
    ELSE candidate

\* mutant of buildAutoId: the counter loop is missing
buildAutoId_NoCounter(doc, usedIds) ==
    LET base == AutoBase(doc)
    IN IF base \in usedIds THEN base \o <<"-">> \o AutoSuffix(doc) ELSE base

\* buildAutoId(doc, usedIds): the identifier returned (the caller adds it to usedIds)
buildAutoId(doc, usedIds) ==
    LET base == AutoBase(doc)
        suffix == AutoSuffix(doc)
        candidate == IF base \in usedIds THEN base \o <<"-">> \o suffix ELSE base
    IN Disambiguate(candidate, base, suffix, 2, usedIds)

\* ------------------------------------------------------------------------
\* KNOWN_LAWS, reduced to its first entry and to the fields used here
\* ------------------------------------------------------------------------
KNOWN_LAWS ==
    << [file |-> "01-personal-data-protection.json",
        id |-> <<"l", "t", "-", "p", "d", "p", "a", "-", "i", "1", "3", "7", "4">>,
        documentId |-> <<"T", "A", "R", ".", "5", "3", "6", "8", "B", "5", "9", "2", "2", "3", "4", "C">>] >>

\* KNOWN_BY_DOCUMENT.get(documentId) is defined
IsKnown(documentId) == \E k \in 1..Len(KNOWN_LAWS) : KNOWN_LAWS[k].documentId = documentId
\* KNOWN_BY_DOCUMENT.get(documentId)
KnownLaw(documentId) ==
    KNOWN_LAWS[CHOOSE k \in 1..Len(KNOWN_LAWS) : KNOWN_LAWS[k].documentId = documentId]

\* ------------------------------------------------------------------------
\* DocumentRecords of the registry (dokumento_id, atv_dok_nr, pavadinimas);
\* an absent atv_dok_nr is the empty string
\* ------------------------------------------------------------------------
\* the known law
DocK == [dokumento_id |-> <<"T", "A", "R", ".", "5", "3", "6", "8", "B", "5", "9", "2", "2", "3", "4", "C">>,
         atv_dok_nr |-> <<"I", "-", "1", "3", "7", "4">>,
         pavadinimas |-> "title K"]
\* act number X-1
DocA == [dokumento_id |-> <<"T", "A", "R", ".", "A", "A", "A", "A", "A", "A", "0", "1">>,
         atv_dok_nr |-> <<"X", "-", "1">>,
         pavadinimas |-> "title A"]
\* the same act number as DocA
DocB == [dokumento_id |-> <<"T", "A", "R", ".", "A", "A", "A", "A", "A", "A", "0", "2">>,
         atv_dok_nr |-> <<"X", "-", "1">>,
         pavadinimas |-> "title B"]
\* the same act number in another spelling; identifier begins like DocB's
DocC == [dokumento_id |-> <<"T", "A", "R", ".", "A", "A", "A", "A", "A", "A", "0", "3">>,
         atv_dok_nr |-> <<" ", "x", " ", "1", " ">>,
         pavadinimas |-> "title C"]
\* an act number without letter or digit
DocD == [dokumento_id |-> <<"T", "A", "R", ".", "B", "B", "B", "B", "B", "B", "0", "4">>,
         atv_dok_nr |-> <<".">>,
         pavadinimas |-> "title D"]
\* an act number with a Lithuanian letter
DocE == [dokumento_id |-> <<"T", "A", "R", ".", "C", "C", "C", "C", "C", "C", "0", "5">>,
         atv_dok_nr |-> <<"N", "r", ".", " ", "Z^", "-", "1">>,
         pavadinimas |-> "title E"]
\* an act number that slugifies to DocB's disambiguated identifier
DocF == [dokumento_id |-> <<"T", "A", "R", ".", "D", "D", "D", "D", "D", "D", "0", "6">>,
         atv_dok_nr |-> <<"X", "-", "1", " ", "T", "A", "R", ".", "A", "A", "A", "A", "A", "A">>,
         pavadinimas |-> "title F"]

RegistryDocs == {DocK, DocA, DocB, DocC, DocD, DocE, DocF}

\* length of the longest corpus handed to buildSeedIdMap
MaxCorpus == 3

Corpora == SeqsUpTo(RegistryDocs, MaxCorpus)

\* one iteration of the for loop of buildSeedIdMap on the state
\* st = [map, used, threw]
SeedIdStep(st, doc) ==
    IF IsKnown(doc.dokumento_id)
    THEN LET known == KnownLaw(doc.dokumento_id)
         IN IF known.id \in st.used
            THEN [st EXCEPT !.threw = TRUE]
            ELSE [map |-> MapSet(st.map, doc.dokumento_id, known.id),
                  used |-> st.used \cup {known.id},
                  threw |-> FALSE]
    ELSE LET id == buildAutoId(doc, st.used)
         IN [map |-> MapSet(st.map, doc.dokumento_id, id),
             used |-> st.used \cup {id},
             threw |-> FALSE]

RECURSIVE SeedIdLoop(_, _)
SeedIdLoop(st, rest) ==
    IF rest = <<>> \/ st.threw THEN st
    ELSE SeedIdLoop(SeedIdStep(st, Head(rest)), Tail(rest))

\* buildSeedIdMap(docs): [map, used, threw]
buildSeedIdMap(ds) == SeedIdLoop([map |-> EmptyMap, used |-> {}, threw |-> FALSE], ds)

InitIds ==
    /\ idpc = "loop"
    /\ docs \in Corpora
    /\ docPos = 0
    /\ map = EmptyMap
    /\ used = {}

\* buildSeedIdMap is not running
IdsIdle ==
    /\ idpc = "idle"
    /\ docs = <<>>
    /\ docPos = 0
    /\ map = EmptyMap
    /\ used = {}

\* ------------------------------------------------------------------------
\* buildSeedIdMap: a document of the known-law table gets its pinned identifier
\* ------------------------------------------------------------------------
buildSeedIdMap_known ==
    /\ idpc = "loop"
    /\ docPos < Len(docs)
    /\ IsKnown(docs[docPos + 1].dokumento_id)
    /\ LET st == SeedIdStep([map |-> map, used |-> used, threw |-> FALSE], docs[docPos + 1])
       IN /\ ~st.threw
          /\ map' = st.map
          /\ used' = st.used
    /\ docPos' = docPos + 1
    /\ UNCHANGED <<idpc, docs>>
    /\ UNCHANGED <<fetchVars, ingestVars, runVars, seedVars, metaVars>>

\* ------------------------------------------------------------------------
\* buildSeedIdMap: throw new Error(`Duplicate known id detected: ...`)
\* ------------------------------------------------------------------------
buildSeedIdMap_throw ==
    /\ idpc = "loop"
    /\ docPos < Len(docs)
    /\ IsKnown(docs[docPos + 1].dokumento_id)
    /\ SeedIdStep([map |-> map, used |-> used, threw |-> FALSE], docs[docPos + 1]).threw
    /\ idpc' = "threw"
    /\ UNCHANGED <<docs, docPos, map, used>>
    /\ UNCHANGED <<fetchVars, ingestVars, runVars, seedVars, metaVars>>

\* ------------------------------------------------------------------------
\* buildSeedIdMap: map.set(doc.dokumento_id, buildAutoId(doc, used))
\* ------------------------------------------------------------------------
buildSeedIdMap_auto ==
    /\ idpc = "loop"
    /\ docPos < Len(docs)
    /\ ~IsKnown(docs[docPos + 1].dokumento_id)
    /\ LET st == SeedIdStep([map |-> map, used |-> used, threw |-> FALSE], docs[docPos + 1])
       IN /\ map' = st.map
          /\ used' = st.used
    /\ docPos' = docPos + 1
    /\ UNCHANGED <<idpc, docs>>
    /\ UNCHANGED <<fetchVars, ingestVars, runVars, seedVars, metaVars>>

\* ------------------------------------------------------------------------
\* buildSeedIdMap: return map
\* ------------------------------------------------------------------------
buildSeedIdMap_return ==
    /\ idpc = "loop"
    /\ docPos = Len(docs)
    /\ idpc' = "returned"
    /\ UNCHANGED <<docs, docPos, map, used>>
    /\ UNCHANGED <<fetchVars, ingestVars, runVars, seedVars, metaVars>>

NextIds ==
    \/ buildSeedIdMap_known
    \/ buildSeedIdMap_throw
    \/ buildSeedIdMap_auto
    \/ buildSeedIdMap_return

\* ========================================================================
\* Part IV: runs of main() (scripts/ingest.ts): corpus, window, identifier
\*          map, the write loop, the summary and the skip log.  The three
\*          fetch phases of Parts I and II are one step here, which hands
\*          main() a selectedByDocument map or throws.
\* ========================================================================

\* runs of main() in one behaviour
MaxRuns == 2
\* largest --start
MaxStart == 1

\* rows fetchAllInForceLaws may return (the registry snapshot of a behaviour);
\* a document may be listed twice
Snapshots == {<<DocB, DocA>>, <<DocK, DocD>>, <<DocK, DocK>>, <<DocA, DocA>>}

\* args.limit of a run without --limit (null)
NoLimit == 0

\* CliArgs of a run; the chunk sizes and the round limit are the defaults
RunArgs ==
    [mode : {"full", "sample"}, start : 0..MaxStart, limit : {NoLimit, 1},
     resume : BOOLEAN, chunkDocs : {100}, chunkTexts : {40},
     maxSuvestineRounds : {20}]

\* a source text, reduced to its length and to the numbers of provisions
\* and definitions the segmenter finds in it
SourceTexts ==
    {[length |-> 4, provisions |-> 0, definitions |-> 0],
     [length |-> 9, provisions |-> 0, definitions |-> 0],
     [length |-> 40, provisions |-> 5, definitions |-> 1],
     [length |-> 90, provisions |-> 2, definitions |-> 0]}

\* parseLithuanianLawText(text), reduced to the lengths of its two lists
parseLithuanianLawText(text) ==
    [provisions |-> text.provisions, definitions |-> text.definitions]

\* SelectedSources the fetch phases may hand to the write loop
RunSources ==
    {[sourceModel |-> "Suvestine", text |-> [length |-> 4, provisions |-> 0, definitions |-> 0]],
     [sourceModel |-> "Dokumentas", text |-> [length |-> 9, provisions |-> 0, definitions |-> 0]],
     [sourceModel |-> "Suvestine", text |-> [length |-> 40, provisions |-> 5, definitions |-> 1]],
     [sourceModel |-> "Dokumentas", text |-> [length |-> 90, provisions |-> 2, definitions |-> 0]]}

\* the maps selectedByDocument may be for the documents ds
SourceMaps(ds) ==
    UNION {[D -> RunSources] : D \in SUBSET {ds[k].dokumento_id : k \in 1..Len(ds)}}

\* collation order of the characters of document identifiers (punctuation,
\* digits, letters; case is not a primary difference)
CharOrder == <<".", "-">> \o DigitChars \o SubSeq(LowerLetters, 1, 26)
CharRank(c) ==
    LET lc == ToLowerChar(c)
    IN IF \E k \in 1..Len(CharOrder) : CharOrder[k] = lc
       THEN CHOOSE k \in 1..Len(CharOrder) : CharOrder[k] = lc
       ELSE Len(CharOrder) + 1

\* a.localeCompare(b) < 0
RECURSIVE LocaleLess(_, _)
LocaleLess(a, b) ==
    IF b = <<>> THEN FALSE
    ELSE IF a = <<>> THEN TRUE
    ELSE IF CharRank(Head(a)) # CharRank(Head(b)) THEN CharRank(Head(a)) < CharRank(Head(b))
    ELSE LocaleLess(Tail(a), Tail(b))

\* Array.prototype.sort by an identifier field (a stable sort, ascending);
\* Key(x) is the identifier of element x
RECURSIVE InsertSorted(_, _, _)
InsertSorted(sorted, x, keyOf) ==
    IF sorted = <<>> THEN <<x>>
    ELSE IF LocaleLess(keyOf[x], keyOf[Head(sorted)])
         THEN <<x>> \o sorted
         ELSE <<Head(sorted)>> \o InsertSorted(Tail(sorted), x, keyOf)

RECURSIVE SortByKey(_, _)
SortByKey(q, keyOf) ==
    IF q = <<>> THEN <<>>
    ELSE InsertSorted(SortByKey(SubSeq(q, 1, Len(q) - 1), keyOf), q[Len(q)], keyOf)

\* allInForceLaws.sort((a, b) => a.dokumento_id.localeCompare(b.dokumento_id))
SortDocuments(q) == SortByKey(q, [x \in Range(q) |-> x.dokumento_id])

\* corpusDocs of a run
CorpusOf(mode, laws) ==
    IF mode = "sample"
    THEN SelectSeqBy(laws, {x \in Range(laws) : IsKnown(x.dokumento_id)})
    ELSE laws

\* Array.prototype.slice(from, to)
SliceSeq(q, from, to) ==
    SubSeq(q, from + 1, IF to < Len(q) THEN to ELSE Len(q))

\* targetDocs of a run
TargetsOf(a, corpus) ==
    IF a.limit # NoLimit
    THEN SliceSeq(corpus, a.start, a.start + a.limit)
    ELSE SliceSeq(corpus, a.start, Len(corpus))

\* mutant: the identifier map is built over the processing window
SeedIdInput_Window(corpus, targets) == targets

\* the documents handed to buildSeedIdMap: corpusDocs
SeedIdInput(corpus, targets) == corpus

\* globalIndexByDocument.get(id): the last index of the document in the corpus
GlobalIndex(corpus, id) ==
    LET hits == {k \in 1..Len(corpus) : corpus[k].dokumento_id = id}
    IN (CHOOSE k \in hits : \A j \in hits : k >= j) - 1

\* Math.max(5, String(corpusDocs.length).length)
MinWidth == 5
WidthOf(corpus) ==
    IF Len(Decimal(Len(corpus))) > MinWidth THEN Len(Decimal(Len(corpus))) ELSE MinWidth

\* String.prototype.padStart(width, '0')
RECURSIVE PadStart(_, _)
PadStart(str, width) == IF Len(str) >= width THEN str ELSE PadStart(<<"0">> \o str, width)

JsonExt == <<".", "j", "s", "o", "n">>
SourceJsonExt == <<".", "s", "o", "u", "r", "c", "e">> \o JsonExt

\* the file field of a known law, as characters
KnownFile == <<"0", "1", "-", "p", "e", "r", "s", "o", "n", "a", "l", "-", "d", "a", "t", "a", "-", "p", "r", "o", "t", "e", "c", "t", "i", "o", "n", ".", "j", "s", "o", "n">>

\* fileName of the seed file of a document
FileNameOf(a, corpus, doc, seedId) ==
    IF a.mode = "sample" /\ IsKnown(doc.dokumento_id) /\ a.start = 0
    THEN KnownFile
    ELSE PadStart(Decimal(GlobalIndex(corpus, doc.dokumento_id) + 1), WidthOf(corpus))
            \o <<"-">> \o seedId \o JsonExt

\* fileName.replace(/\.json$/, '') + '.source.json'
SourceFileNameOf(fileName) ==
    (IF Len(fileName) >= Len(JsonExt)
        /\ SubSeq(fileName, Len(fileName) - Len(JsonExt) + 1, Len(fileName)) = JsonExt
     THEN SubSeq(fileName, 1, Len(fileName) - Len(JsonExt))
     ELSE fileName) \o SourceJsonExt

\* a summary file: absent, or the fields main() reads back and writes
\* (run_at, the time of writing, is left out); a field a file lacks is Missing
Missing == -1
NoSummary ==
    [exists |-> FALSE, mode |-> "", target_laws |-> Missing, window_start |-> Missing,
     window_count |-> Missing, written_seed_files |-> Missing, skipped_laws |-> Missing,
     suvestine |-> Missing, dokumentas_fallback |-> Missing,
     provisions |-> Missing, definitions |-> Missing]
\* a summary file that holds totals.provisions = 10 and nothing else
PriorSummary == [NoSummary EXCEPT !.exists = TRUE, !.provisions = 10]

\* mutant: the prior value is never added
NumberOrZero_Ignore(file, field) == 0

\* Number(previousSummary?.x && previousSummary.x.y) || 0
NumberOrZero(file, field) ==
    IF file.exists /\ file[field] # Missing THEN file[field] ELSE 0

NoSkipFile == [exists |-> FALSE, entries |-> <<>>]

\* `${item.document_id}:${item.reason}`
SkipKey(item) == item.document_id \o <<":">> \o item.reason

NoTextAvailable == <<"n", "o", "_", "t", "e", "x", "t", "_", "a", "v", "a", "i", "l", "a", "b", "l", "e">>
NoParsedProvisions == <<"n", "o", "_", "p", "a", "r", "s", "e", "d", "_", "p", "r", "o", "v", "i", "s", "i", "o", "n", "s">>

\* mutant of the merge: an entry of an earlier run is kept
RECURSIVE MergeSkipped_KeepOld(_, _)
MergeSkipped_KeepOld(acc, q) ==
    IF q = <<>> THEN acc
    ELSE LET item == Head(q)
             hits == {k \in 1..Len(acc) : SkipKey(acc[k]) = SkipKey(item)}
         IN MergeSkipped_KeepOld(IF hits = {} THEN Append(acc, item) ELSE acc, Tail(q))

\* mergedSkippedMap.set(key, item) for the items of q, in order: a new key
\* is appended, a present key keeps its place and takes the new item
RECURSIVE MergeSkipped(_, _)
MergeSkipped(acc, q) ==
    IF q = <<>> THEN acc
    ELSE LET item == Head(q)
             hits == {k \in 1..Len(acc) : SkipKey(acc[k]) = SkipKey(item)}
         IN MergeSkipped(IF hits = {} THEN Append(acc, item)
                         ELSE [acc EXCEPT ![CHOOSE k \in hits : TRUE] = item],
                         Tail(q))

\* Array.from(mergedSkippedMap.values()).sort(by document_id)
SortSkipped(q) == SortByKey(q, [x \in Range(q) |-> x.document_id])

\* name.endsWith('.json')
EndsWithJson(name) ==
    /\ Len(name) >= Len(JsonExt)
    /\ SubSeq(name, Len(name) - Len(JsonExt) + 1, Len(name)) = JsonExt

\* clearJsonFiles(dir): the files the directory holds afterwards
clearJsonFiles(dir) == [name \in {n \in DOMAIN dir : ~EndsWithJson(n)} |-> dir[name]]

InitRuns ==
    /\ ipc = "start"
    /\ args = [mode |-> "full", start |-> 0, limit |-> NoLimit, resume |-> FALSE,
               chunkDocs |-> 100, chunkTexts |-> 40, maxSuvestineRounds |-> 20]
    /\ targetDocs = <<>>
    /\ selectedByDocument = EmptyMap
    /\ chunkIdx = 0
    /\ editionsByDoc = EmptyMap
    /\ selected = EmptyMap
    /\ unresolved = <<>>
    /\ round = 0
    /\ candidates = <<>>
    /\ roundExhausted = <<>>
    /\ suvestineIds = <<>>
    /\ textBySuvestine = EmptyMap
    /\ unresolvedAfterRounds = <<>>
    /\ fallbackSelected = EmptyMap
    /\ textServed = EmptyMap
    /\ textRequested = <<>>
    /\ resolvedRound = EmptyMap
    /\ fallbackRequested = {}
    /\ parked = {}
    /\ docServed = EmptyMap
    /\ allInForceLaws \in Snapshots
    /\ corpusDocs = <<>>
    /\ seedIdByDocument = EmptyMap
    /\ docIdx = 0
    /\ skipped = <<>>
    /\ written = 0
    /\ totalProvisions = 0
    /\ totalDefinitions = 0
    /\ suvestineUsed = 0
    /\ dokumentasUsed = 0
    /\ seedDir = EmptyMap
    /\ sourceDir = EmptyMap
    /\ summaryFile \in {NoSummary, PriorSummary}
    /\ skippedFile = NoSkipFile
    /\ runs = 0
    /\ resumeLog = <<>>
    /\ seedDirBefore = EmptyMap
    /\ sourceDirBefore = EmptyMap
    /\ summaryBefore = NoSummary
    /\ skipLatest = EmptyMap
    /\ seedWrites = <<>>
    /\ sourceWrites = <<>>
    /\ idsWritten = {}

\* main() is not running and the output directories are empty
RunsIdle ==
    /\ allInForceLaws = <<>>
    /\ corpusDocs = <<>>
    /\ seedIdByDocument = EmptyMap
    /\ docIdx = 0
    /\ skipped = <<>>
    /\ written = 0
    /\ totalProvisions = 0
    /\ totalDefinitions = 0
    /\ suvestineUsed = 0
    /\ dokumentasUsed = 0
    /\ seedDir = EmptyMap
    /\ sourceDir = EmptyMap
    /\ summaryFile = NoSummary
    /\ skippedFile = NoSkipFile
    /\ runs = 0
    /\ resumeLog = <<>>
    /\ seedDirBefore = EmptyMap
    /\ sourceDirBefore = EmptyMap
    /\ summaryBefore = NoSummary
    /\ skipLatest = EmptyMap
    /\ seedWrites = <<>>
    /\ sourceWrites = <<>>
    /\ idsWritten = {}

\* ------------------------------------------------------------------------
\* main: a run starts (parseArgs, ensureDirs, and without --resume
\* clearJsonFiles of both output directories; the summary and the skip log
\* are .json files of the provenance directory)
\* ------------------------------------------------------------------------
main_start ==
    /\ ipc \in {"start", "done", "aborted"}
    /\ runs < MaxRuns
    /\ \E a \in RunArgs :
          /\ args' = a
          /\ IF a.resume
             THEN UNCHANGED <<seedDir, sourceDir, summaryFile, skippedFile, skipLatest>>
             ELSE /\ seedDir' = clearJsonFiles(seedDir)
                  /\ sourceDir' = clearJsonFiles(sourceDir)
                  /\ summaryFile' = NoSummary
                  /\ skippedFile' = NoSkipFile
                  /\ skipLatest' = EmptyMap
    /\ runs' = runs + 1
    /\ summaryBefore' = summaryFile
    /\ resumeLog' = Append(resumeLog, args'.resume)
    /\ seedDirBefore' = seedDir
    /\ sourceDirBefore' = sourceDir
    /\ seedWrites' = <<>>
    /\ sourceWrites' = <<>>
    /\ corpusDocs' = <<>>
    /\ targetDocs' = <<>>
    /\ seedIdByDocument' = EmptyMap
    /\ selectedByDocument' = EmptyMap
    /\ docIdx' = 0
    /\ skipped' = <<>>
    /\ written' = 0
    /\ totalProvisions' = 0
    /\ totalDefinitions' = 0
    /\ suvestineUsed' = 0
    /\ dokumentasUsed' = 0
    /\ ipc' = "discover"
    /\ UNCHANGED <<allInForceLaws, idsWritten>>
    /\ UNCHANGED <<phaseVars, fetchVars, idVars, seedVars, metaVars>>

\* ------------------------------------------------------------------------
\* main: fetchAllInForceLaws returned; corpus (in sample mode the known
\* laws, whose order by table index is the one they have), window and
\* identifier map
\* ------------------------------------------------------------------------
main_discover ==
    /\ ipc = "discover"
    /\ LET laws == SortDocuments(allInForceLaws)
           corpus == CorpusOf(args.mode, laws)
           targets == TargetsOf(args, corpus)
           ids == buildSeedIdMap(SeedIdInput(corpus, targets))
       IN /\ corpusDocs' = corpus
          /\ targetDocs' = targets
          /\ IF ids.threw
             THEN /\ ipc' = "aborted"
                  /\ UNCHANGED seedIdByDocument
             ELSE /\ ipc' = "sources"
                  /\ seedIdByDocument' = ids.map
    /\ UNCHANGED <<args, selectedByDocument>>
    /\ UNCHANGED <<allInForceLaws, docIdx, skipped, written, totalProvisions,
                   totalDefinitions, suvestineUsed, dokumentasUsed, seedDir, sourceDir,
                   summaryFile, skippedFile, runs, summaryBefore, resumeLog, seedDirBefore,
                   sourceDirBefore, skipLatest,
                   seedWrites, sourceWrites, idsWritten>>
    /\ UNCHANGED <<phaseVars, fetchVars, idVars, seedVars, metaVars>>

\* ------------------------------------------------------------------------
\* main: the edition-metadata, edition-text and fallback phases returned
\* and the merge gave selectedByDocument
\* ------------------------------------------------------------------------
main_sources ==
    /\ ipc = "sources"
    /\ selectedByDocument' \in SourceMaps(targetDocs)
    /\ ipc' = "documents"
    /\ UNCHANGED <<args, targetDocs>>
    /\ UNCHANGED runVars
    /\ UNCHANGED <<phaseVars, fetchVars, idVars, seedVars, metaVars>>

\* a fetch that throws while the documents are written
main_fetchFails_InLoop ==
    /\ ipc \in {"discover", "sources", "documents"}
    /\ ipc' = "aborted"
    /\ UNCHANGED <<args, targetDocs, selectedByDocument>>
    /\ UNCHANGED runVars
    /\ UNCHANGED <<phaseVars, fetchVars, idVars, seedVars, metaVars>>

\* ------------------------------------------------------------------------
\* main: a fetch of the run throws; main().catch ends the process
\* ------------------------------------------------------------------------
main_fetchFails ==
    /\ ipc \in {"discover", "sources"}
    /\ ipc' = "aborted"
    /\ UNCHANGED <<args, targetDocs, selectedByDocument>>
    /\ UNCHANGED runVars
    /\ UNCHANGED <<phaseVars, fetchVars, idVars, seedVars, metaVars>>

\* mutant: every skip entry carries the reason no_text_available
SkipEntry_OneReason(doc, reason, model, len) ==
    [document_id |-> doc.dokumento_id, title |-> doc.pavadinimas,
     reason |-> NoTextAvailable,
     details |-> [model |-> model, text_length |-> len]]

\* a skip entry; details is reduced to the source model and the text length
\* it names (none for no_text_available)
SkipEntry(doc, reason, model, len) ==
    [document_id |-> doc.dokumento_id, title |-> doc.pavadinimas, reason |-> reason,
     details |-> [model |-> model, text_length |-> len]]

\* ------------------------------------------------------------------------
\* main: one iteration of the loop over targetDocs
\* ------------------------------------------------------------------------
main_document ==
    /\ ipc = "documents"
    /\ docIdx < Len(targetDocs)
    /\ LET doc == targetDocs[docIdx + 1]
           id == doc.dokumento_id
       IN IF id \notin DOMAIN selectedByDocument
          THEN \* no source: skipped, continue
               /\ skipped' = Append(skipped, SkipEntry(doc, NoTextAvailable, "", 0))
               /\ skipLatest' = MapSet(skipLatest, <<id, NoTextAvailable>>,
                                       SkipEntry(doc, NoTextAvailable, "", 0))
               /\ ipc' = ipc
               /\ UNCHANGED <<written, totalProvisions, totalDefinitions, suvestineUsed,
                              dokumentasUsed, seedDir, sourceDir, seedWrites,
                              sourceWrites, idsWritten>>
          ELSE LET source == selectedByDocument[id]
                   parsed == parseLithuanianLawText(source.text)
               IN IF parsed.provisions = 0
                  THEN \* nothing parsed: skipped, continue
                       LET entry == SkipEntry(doc, NoParsedProvisions,
                                              source.sourceModel, source.text.length)
                       IN /\ skipped' = Append(skipped, entry)
                          /\ skipLatest' = MapSet(skipLatest, <<id, NoParsedProvisions>>, entry)
                          /\ ipc' = ipc
                          /\ UNCHANGED <<written, totalProvisions, totalDefinitions,
                                         suvestineUsed, dokumentasUsed, seedDir, sourceDir,
                                         seedWrites, sourceWrites, idsWritten>>
                  ELSE IF id \notin DOMAIN seedIdByDocument
                  THEN \* throw new Error(`Missing seed id for ...`)
                       /\ ipc' = "aborted"
                       /\ UNCHANGED <<skipped, skipLatest, written, totalProvisions,
                                      totalDefinitions, suvestineUsed, dokumentasUsed,
                                      seedDir, sourceDir, seedWrites, sourceWrites,
                                      idsWritten>>
                  ELSE LET seedId == seedIdByDocument[id]
                           fileName == FileNameOf(args, corpusDocs, doc, seedId)
                           sourceName == SourceFileNameOf(fileName)
                           seed == [id |-> seedId, title |-> doc.pavadinimas,
                                    provisions |-> parsed.provisions,
                                    definitions |-> parsed.definitions]
                           sourceMeta == [document_id |-> id,
                                          title |-> doc.pavadinimas,
                                          source_model |-> source.sourceModel,
                                          raw_text_length |-> source.text.length,
                                          parsed_provisions |-> parsed.provisions,
                                          parsed_definitions |-> parsed.definitions]
                       IN /\ seedDir' = MapSet(seedDir, fileName, seed)
                          /\ sourceDir' = MapSet(sourceDir, sourceName, sourceMeta)
                          /\ seedWrites' = Append(seedWrites,
                                [file |-> fileName, document_id |-> id, record |-> seed])
                          /\ sourceWrites' = Append(sourceWrites,
                                [file |-> sourceName, document_id |-> id,
                                 record |-> sourceMeta])
                          /\ idsWritten' = idsWritten \cup
                                {[mode |-> args.mode, start |-> args.start,
                                  limit |-> args.limit, document_id |-> id,
                                  id |-> seedId]}
                          /\ totalProvisions' = totalProvisions + parsed.provisions
                          /\ totalDefinitions' = totalDefinitions + parsed.definitions
                          /\ written' = written + 1
                          /\ suvestineUsed' = IF source.sourceModel = "Suvestine"
                                              THEN suvestineUsed + 1 ELSE suvestineUsed
                          /\ dokumentasUsed' = IF source.sourceModel = "Dokumentas"
                                               THEN dokumentasUsed + 1 ELSE dokumentasUsed
                          /\ ipc' = ipc
                          /\ UNCHANGED <<skipped, skipLatest>>
    /\ docIdx' = docIdx + 1
    /\ UNCHANGED <<args, targetDocs, selectedByDocument>>
    /\ UNCHANGED <<allInForceLaws, corpusDocs, seedIdByDocument, summaryFile,
                   skippedFile, runs, summaryBefore, resumeLog, seedDirBefore,
                   sourceDirBefore>>
    /\ UNCHANGED <<phaseVars, fetchVars, idVars, seedVars, metaVars>>

\* the summary main() writes
SummaryOf(previousSummary, mergedSkipped) ==
    [exists |-> TRUE,
     mode |-> args.mode,
     target_laws |-> Len(corpusDocs),
     window_start |-> args.start,
     window_count |-> Len(targetDocs),
     written_seed_files |-> Cardinality({n \in DOMAIN seedDir : EndsWithJson(n)}),
     skipped_laws |-> Len(mergedSkipped),
     suvestine |-> NumberOrZero(previousSummary, "suvestine") + suvestineUsed,
     dokumentas_fallback |->
         NumberOrZero(previousSummary, "dokumentas_fallback") + dokumentasUsed,
     provisions |-> NumberOrZero(previousSummary, "provisions") + totalProvisions,
     definitions |-> NumberOrZero(previousSummary, "definitions") + totalDefinitions]

\* args.resume && fs.existsSync(summaryPath) ? JSON.parse(...) : null
PreviousSummary(resume, file) == IF resume /\ file.exists THEN file ELSE NoSummary

\* args.resume && fs.existsSync(skippedPath) ? JSON.parse(...) : []
PreviousSkipped(resume, file) == IF resume /\ file.exists THEN file.entries ELSE <<>>

\* ------------------------------------------------------------------------
\* main: after the loop, the summary and the merged skip log are written
\* ------------------------------------------------------------------------
main_summary ==
    /\ ipc = "documents"
    /\ docIdx = Len(targetDocs)
    /\ LET previousSummary == PreviousSummary(args.resume, summaryFile)
           previousSkipped == PreviousSkipped(args.resume, skippedFile)
           mergedSkipped == SortSkipped(MergeSkipped(MergeSkipped(<<>>, previousSkipped),
                                                     skipped))
       IN /\ summaryFile' = SummaryOf(previousSummary, mergedSkipped)
          /\ skippedFile' = [exists |-> TRUE, entries |-> mergedSkipped]
    /\ ipc' = "done"
    /\ UNCHANGED <<args, targetDocs, selectedByDocument>>
    /\ UNCHANGED <<allInForceLaws, corpusDocs, seedIdByDocument, docIdx, skipped,
                   written, totalProvisions, totalDefinitions, suvestineUsed,
                   dokumentasUsed, seedDir, sourceDir, runs, summaryBefore, resumeLog, seedDirBefore,
                   sourceDirBefore, skipLatest,
                   seedWrites, sourceWrites, idsWritten>>
    /\ UNCHANGED <<phaseVars, fetchVars, idVars, seedVars, metaVars>>

NextRuns ==
    \/ main_start
    \/ main_discover
    \/ main_sources
    \/ main_fetchFails
    \/ main_document
    \/ main_summary

\* Math.min
MinOf(a, b) == IF a < b THEN a ELSE b

\* ========================================================================
\* Part V.  The segmenter (scripts/lib/parser.ts) and the status mapping
\* of a seed record (scripts/ingest.ts, mapStatus)
\*
\* A text is a sequence of characters.  A character is a one-character
\* string; the characters outside ASCII that the code names have a name
\* here (Nbsp, Zwsp, EnDash, EmDash, LowQuote, HighQuote), and the words
\* the code looks for are kept as one element each (Words), with their
\* number of characters in CharLen.  Offsets count elements.
\* ========================================================================

Nbsp == "nbsp"
Zwsp == "zwsp"
EnDash == "endash"
EmDash == "emdash"
\* the quotation marks U+201E and U+201C
LowQuote == "lq"
HighQuote == "rq"

\* the words kept as one element, with their lower-case form and length
Words ==
    [w \in {"straipsnis", "Straipsnis", "skyrius", "SKYRIUS", "SKIRSNIS",
            "POSKYRIS", "Pakeitimai:", "sa,vok", "Sa,vok", "apibre'z^",
            "s^iame i,statyme vartojam"} |->
        CASE w \in {"straipsnis", "Straipsnis"} -> [lower |-> "straipsnis", len |-> 10]
          [] w \in {"skyrius", "SKYRIUS"} -> [lower |-> "skyrius", len |-> 7]
          [] w = "SKIRSNIS" -> [lower |-> "skirsnis", len |-> 8]
          [] w = "POSKYRIS" -> [lower |-> "poskyris", len |-> 8]
          [] w = "Pakeitimai:" -> [lower |-> "pakeitimai:", len |-> 11]
          [] w \in {"sa,vok", "Sa,vok"} -> [lower |-> "sa,vok", len |-> 5]
          [] w = "apibre'z^" -> [lower |-> "apibre'z^", len |-> 7]
          [] w = "s^iame i,statyme vartojam" ->
                [lower |-> "s^iame i,statyme vartojam", len |-> 23]]

\* the number of characters of an element, and String.prototype.length
CharLen(c) == IF c \in DOMAIN Words THEN Words[c].len ELSE 1
RECURSIVE StrLen(_)
StrLen(s) == IF s = <<>> THEN 0 ELSE CharLen(Head(s)) + StrLen(Tail(s))

\* String.prototype.toLowerCase and the i flag of a pattern, per element
LowerOf(c) == IF c \in DOMAIN Words THEN Words[c].lower ELSE ToLowerChar(c)
LowerStr(s) == [k \in 1..Len(s) |-> LowerOf(s[k])]

\* the classes \s, \d, [A-Za-z], [0-9A-Za-z-], [IVXLCDM] (i flag) and the
\* three dashes of the definition patterns
IsSpace(c) == c \in {" ", "\n", "\t", "\r", Nbsp}
IsDigit(c) == c \in Range(DigitChars)
IsAsciiLetter(c) ==
    \/ \E k \in 1..26 : c \in {UpperLetters[k], LowerLetters[k]}
    \/ c \in {"straipsnis", "Straipsnis", "skyrius", "SKYRIUS", "SKIRSNIS",
              "POSKYRIS"}
IsLabelChar(c) == IsDigit(c) \/ IsAsciiLetter(c) \/ c = "-"
IsRoman(c) == LowerOf(c) \in {"i", "v", "x", "l", "c", "d", "m"}
IsDash(c) == c \in {EnDash, EmDash, "-"}

\* the first position at or after p whose element is outside a class (or
\* Len + 1): the end of a greedy \s*, \d*, [0-9A-Za-z-]*, [IVXLCDM]*, [^\n]*
RECURSIVE SkipWs(_, _)
SkipWs(t, p) == IF p <= Len(t) /\ IsSpace(t[p]) THEN SkipWs(t, p + 1) ELSE p
RECURSIVE DigitsEnd(_, _)
DigitsEnd(t, p) == IF p <= Len(t) /\ IsDigit(t[p]) THEN DigitsEnd(t, p + 1) ELSE p
RECURSIVE LabelEnd(_, _)
LabelEnd(t, p) == IF p <= Len(t) /\ IsLabelChar(t[p]) THEN LabelEnd(t, p + 1) ELSE p
RECURSIVE RomanEnd(_, _)
RomanEnd(t, p) == IF p <= Len(t) /\ IsRoman(t[p]) THEN RomanEnd(t, p + 1) ELSE p
RECURSIVE LineEnd(_, _)
LineEnd(t, p) == IF p <= Len(t) /\ t[p] # "\n" THEN LineEnd(t, p + 1) ELSE p

\* String.prototype.trim with the whitespace of \s
RECURSIVE SkipWsBack(_, _)
SkipWsBack(t, p) == IF p >= 1 /\ IsSpace(t[p]) THEN SkipWsBack(t, p - 1) ELSE p
TrimWs(t) == SubSeq(t, SkipWs(t, 1), SkipWsBack(t, Len(t)))

\* the smallest element of a non-empty set of numbers
Least(S) == CHOOSE x \in S : \A y \in S : x <= y

\* text.split('\n') on t[a .. b]: the first and last position of each line,
\* found by halving at the line break nearest the middle
RECURSIVE LineSpans(_, _, _)
LineSpans(t, a, b) ==
    LET breaks == {p \in a..b : t[p] = "\n"}
        mid == (a + b) \div 2
        Away(p) == IF p < mid THEN mid - p ELSE p - mid
        nearest == {p \in breaks : \A q \in breaks : Away(p) <= Away(q)}
        cut == Least(nearest)
    IN IF breaks = {} THEN <<[from |-> a, to |-> b]>>
       ELSE LineSpans(t, a, cut - 1) \o LineSpans(t, cut + 1, b)
SplitLines(t) ==
    LET spans == LineSpans(t, 1, Len(t))
    IN [k \in 1..Len(spans) |-> SubSeq(t, spans[k].from, spans[k].to)]

\* lines.join('\n'), by halves
RECURSIVE JoinRange(_, _, _)
JoinRange(lines, a, b) ==
    IF a > b THEN <<>>
    ELSE IF a = b THEN lines[a]
    ELSE LET mid == (a + b) \div 2
         IN JoinRange(lines, a, mid) \o <<"\n">> \o JoinRange(lines, mid + 1, b)
JoinLines(lines) == JoinRange(lines, 1, Len(lines))


\* normalizeInput: \r\n and \r become \n, a no-break space and a tab become
\* a space, a zero-width space is removed
normalizeInput(text) ==
    LET n == Len(text)
        mapped == [i \in 1..n |->
                     IF text[i] = "\r"
                     THEN (IF i < n /\ text[i + 1] = "\n" THEN Zwsp ELSE "\n")
                     ELSE IF text[i] \in {Nbsp, "\t"} THEN " "
                     ELSE text[i]]
    IN SelectSeq(mapped, LAMBDA c : c # Zwsp)

\* trimTrailingSections: the text before the first /\nPakeitimai:\s*\n/i
trimTrailingSections(text) ==
    LET n == Len(text)
        hits == {p \in 1..(n - 1) :
                    /\ text[p] = "\n"
                    /\ LowerOf(text[p + 1]) = "pakeitimai:"
                    /\ \E q \in (p + 2)..(SkipWs(text, p + 2) - 1) : text[q] = "\n"}
    IN IF hits = {} THEN text ELSE SubSeq(text, 1, Least(hits) - 1)

\* the part \s*(\d+[0-9A-Za-z-]*)\s+straipsnis\. of both heading patterns,
\* matched from position q: the label is text[from .. to - 1], dot is the
\* position of the period
HeadingFrom(text, q) ==
    LET n == Len(text)
        a == SkipWs(text, q)
        b == LabelEnd(text, a)
        c == SkipWs(text, b)
    IN [ok |-> /\ a <= n /\ IsDigit(text[a])
               /\ b <= n /\ IsSpace(text[b])
               /\ c < n /\ LowerOf(text[c]) = "straipsnis" /\ text[c + 1] = ".",
        from |-> a, to |-> b, dot |-> c + 1]

\* ^ with the m flag
LineStart(text, p) == p = 1 \/ text[p - 1] = "\n"

\* normalized.search(FIRST_ARTICLE_HEADING): the offset of the first match, or -1
FirstArticle(text) ==
    LET hits == {p \in 1..Len(text) : LineStart(text, p) /\ HeadingFrom(text, p).ok}
    IN IF hits = {} THEN -1 ELSE Least(hits) - 1

\* one ARTICLE_HEADING.exec(text) with the matcher's lastIndex at
\* lastIndex: no match, or the marker pushed and the new lastIndex
ArticleExec(text, lastIndex) ==
    LET n == Len(text)
        \* the length of group 1 of a match beginning at offset s, or -1
        Group1(s) ==
            IF LineStart(text, s + 1) /\ HeadingFrom(text, s + 1).ok THEN 0
            ELSE IF text[s + 1] = "\n" /\ HeadingFrom(text, s + 2).ok THEN 1
            ELSE -1
        hits == {s \in lastIndex..(n - 1) : Group1(s) >= 0}
    IN IF hits = {} THEN [found |-> FALSE]
       ELSE LET s == Least(hits)
                g == Group1(s)
                h == HeadingFrom(text, s + 1 + g)
                w == SkipWs(text, h.dot + 1)
                e == LineEnd(text, w)
            IN [found |-> TRUE,
                marker |-> [section |-> TrimWs(SubSeq(text, h.from, h.to - 1)),
                            titleTail |-> TrimWs(SubSeq(text, w, e - 1)),
                            index |-> s + g,
                            matchLength |-> (e - 1) - (s + g)],
                lastIndex |-> e - 1]

\* ARTICLE_HEADING.lastIndex when the while loop of collectArticleMarkers
\* is left: the exec that finds no match sets it to 0
RECURSIVE ArticleLastIndex_Kept(_, _)
ArticleLastIndex_Kept(text, lastIndex) ==
    LET m == ArticleExec(text, lastIndex)
    IN IF m.found THEN ArticleLastIndex_Kept(text, m.lastIndex) ELSE lastIndex

RECURSIVE ArticleLastIndex(_, _)
ArticleLastIndex(text, lastIndex) ==
    LET m == ArticleExec(text, lastIndex)
    IN IF m.found THEN ArticleLastIndex(text, m.lastIndex) ELSE 0

\* collectArticleMarkers: exec until it returns null
RECURSIVE ArticleLoop(_, _)
ArticleLoop(text, lastIndex) ==
    LET m == ArticleExec(text, lastIndex)
    IN IF m.found THEN <<m.marker>> \o ArticleLoop(text, m.lastIndex) ELSE <<>>
collectArticleMarkers(text, lastIndex) == ArticleLoop(text, lastIndex)

\* /^[IVXLCDM]+\s+SKYRIUS$/i on a trimmed line
IsChapterLine(line) ==
    LET r == RomanEnd(line, 1)
        c == SkipWs(line, r)
    IN /\ r > 1 /\ r <= Len(line) /\ IsSpace(line[r])
       /\ c = Len(line) /\ LowerOf(line[c]) = "skyrius"

\* /^\d+[0-9A-Za-z-]*\s+straipsnis\./i on a trimmed line
IsHeadingLine(line) == line # <<>> /\ IsDigit(line[1]) /\ HeadingFrom(line, 1).ok

\* the subtitle of the chapter heading in line i: the first non-blank line
\* among the next four unless it is an article or a chapter heading
RECURSIVE Subtitle(_, _, _)
Subtitle(lines, i, j) ==
    IF j > MinOf(Len(lines), i + 4) THEN <<>>
    ELSE LET candidate == TrimWs(lines[j])
         IN IF candidate = <<>> THEN Subtitle(lines, i, j + 1)
            ELSE IF IsHeadingLine(candidate) \/ IsChapterLine(candidate) THEN <<>>
            ELSE candidate

\* parseChapterMarkers
parseChapterMarkers(text) ==
    LET spans == LineSpans(text, 1, Len(text))
        lines == SplitLines(text)
        \* offset of line i: the sum of lines[k].length + 1 over the lines
        \* before it, which is where the line begins
        all == [i \in 1..Len(lines) |->
                  LET line == TrimWs(lines[i])
                      subtitle == Subtitle(lines, i, i + 1)
                  IN [chapter |-> IsChapterLine(line),
                      index |-> spans[i].from - 1,
                      label |-> IF subtitle # <<>> THEN line \o <<" ">> \o subtitle
                                ELSE line]]
        found == SelectSeq(all, LAMBDA m : m.chapter)
    IN [k \in 1..Len(found) |-> [index |-> found[k].index, label |-> found[k].label]]

\* a provision without chapter (chapter: undefined)
NoChapter == <<>>

\* chapterForIndex: the label of the last marker before the first marker
\* whose index is greater than index
chapterForIndex(chapters, index) ==
    LET before == {k \in 1..Len(chapters) : \A j \in 1..k : chapters[j].index <= index}
    IN IF before = {} THEN NoChapter ELSE chapters[Cardinality(before)].label

\* sanitizeSection
sanitizeSection(section) == SelectSeq(section, LAMBDA c : ~IsSpace(c))

\* the key made of the digits of the label only
makeProvisionRef_Digits(section) == <<"a", "r", "t">> \o SelectSeq(section, IsDigit)

\* makeProvisionRef
makeProvisionRef(section) ==
    <<"a", "r", "t">> \o
    SelectSeq(LowerStr(section),
              LAMBDA c : IsDigit(c) \/ c = "-" \/ (IsAsciiLetter(c) /\ LowerOf(c) = c))

\* cleanContent: lines trimmed, a run of blank lines kept as one, all trimmed
CleanLines(lines) ==
    LET trimmed == [i \in 1..Len(lines) |-> TrimWs(lines[i])]
        marked == [i \in 1..Len(lines) |->
                     [line |-> trimmed[i],
                      prevBlank |-> i > 1 /\ trimmed[i - 1] = <<>>]]
        kept == SelectSeq(marked, LAMBDA m : m.line # <<>> \/ ~m.prevBlank)
    IN [k \in 1..Len(kept) |-> kept[k].line]
cleanContent(raw) == TrimWs(JoinLines(CleanLines(SplitLines(raw))))

\* the first line becomes the title whatever the heading carries
maybePromoteFirstLineAsTitle_Always(titleTail, content) ==
    LET lines == SplitLines(content)
    IN [titleTail |-> TrimWs(lines[1]), content |-> TrimWs(JoinLines(Tail(lines)))]

\* maybePromoteFirstLineAsTitle
maybePromoteFirstLineAsTitle(titleTail, content) ==
    LET lines == SplitLines(content)
        first == TrimWs(lines[1])
        d == DigitsEnd(first, 1)
        same == [titleTail |-> titleTail, content |-> content]
    IN IF titleTail # <<>> THEN same
       ELSE IF first = <<>> THEN same
       ELSE IF StrLen(first) > 180 THEN same
       ELSE IF d > 1 /\ d <= Len(first) /\ first[d] \in {".", ")"} THEN same
       ELSE IF Len(first) = 1 /\ LowerOf(first[1]) \in {"skirsnis", "skyrius", "poskyris"}
            THEN same
       ELSE [titleTail |-> first, content |-> TrimWs(JoinLines(Tail(lines)))]

\* the end of a run of [^\n-] (no line break, none of the three dashes)
RECURSIVE TermRun(_, _)
TermRun(text, p) ==
    IF p <= Len(text) /\ text[p] # "\n" /\ ~IsDash(text[p])
    THEN TermRun(text, p + 1) ELSE p

\* the part \s*\d+\.\s*([^\n-]{2,140}?)\s*[-] of the numbered pattern (its
\* head and its lookahead), matched from position q: the term is
\* text[from .. to - 1] before trimming, dash is the position of the dash
ItemHead(text, q) ==
    LET n == Len(text)
        a == SkipWs(text, q)
        d == DigitsEnd(text, a)
        r == d + 1
        w == SkipWs(text, r)
        u == TermRun(text, w)
        dash == SkipWs(text, u)
        \* the splits the pattern admits: \s* ends at t0, the term at x
        splits == {s \in (r..w) \X (r..(u - 1)) :
                     /\ s[1] <= s[2]
                     /\ \A k \in s[1]..(w - 1) : text[k] # "\n"
                     /\ StrLen(SubSeq(text, s[1], s[2])) >= 2
                     /\ StrLen(SubSeq(text, s[1], s[2])) <= 140
                     /\ \A k \in (s[2] + 1)..(u - 1) : IsSpace(text[k])}
        \* the engine's choice: the longest \s*, then the shortest term
        t0 == CHOOSE x \in {s[1] : s \in splits} : \A s \in splits : s[1] <= x
        x0 == Least({s[2] : s \in {z \in splits : z[1] = t0}})
    IN IF /\ a <= n /\ IsDigit(text[a])
          /\ d <= n /\ text[d] = "."
          /\ dash <= n /\ IsDash(text[dash])
          /\ splits # {}
       THEN [ok |-> TRUE, from |-> t0, to |-> x0 + 1, dash |-> dash]
       ELSE [ok |-> FALSE, from |-> 0, to |-> 0, dash |-> 0]

\* the end of ([^\n].+?) begun at position j: the first line break at or
\* after e that begins a numbered item, or the end of the text
RECURSIVE DefinitionEnd(_, _)
DefinitionStop(text, q) ==
    IF q > Len(text) THEN Len(text) + 1
    ELSE IF ItemHead(text, q + 1).ok THEN q
    ELSE DefinitionEnd(text, q + 1)
DefinitionEnd(text, e) == DefinitionStop(text, LineEnd(text, e))

NoMatch == [found |-> FALSE, term |-> <<>>, definition |-> <<>>, lastIndex |-> 0]

\* the rest of a match of the numbered pattern whose head is h: \s* and
\* ([^\n].+?), the definition beginning as late as \s* allows
NumberedFrom(text, h) ==
    LET n == Len(text)
        w == SkipWs(text, h.dash + 1)
        starts == {j \in (h.dash + 1)..w : j < n /\ text[j] # "\n"}
        j0 == CHOOSE j \in starts : \A k \in starts : k <= j
        e == DefinitionEnd(text, j0 + 2)
    IN IF h.ok /\ starts # {}
       THEN [found |-> TRUE,
             term |-> TrimWs(SubSeq(text, h.from, h.to - 1)),
             definition |-> TrimWs(SubSeq(text, j0, e - 1)),
             lastIndex |-> e - 1]
       ELSE NoMatch

\* a match of the numbered pattern beginning at position p: (?:^|\n) is
\* the beginning of the text or a line break
NumberedAt(text, p) ==
    IF p = 1 THEN NumberedFrom(text, ItemHead(text, 1))
    ELSE IF text[p] = "\n" THEN NumberedFrom(text, ItemHead(text, p + 1))
    ELSE NoMatch

\* numberedPattern.exec(content) with lastIndex p - 1, p being 1 or the
\* position of a line break
RECURSIVE NumberedExec(_, _)
NumberedTry(text, p, m) ==
    IF m.found THEN m ELSE NumberedExec(text, LineEnd(text, p + 1))
NumberedExec(text, p) ==
    IF p > Len(text) THEN NoMatch ELSE NumberedTry(text, p, NumberedAt(text, p))

\* a matched term and definition are pushed if long enough after trimming
PushIf(match, provisionRef) ==
    IF StrLen(match.term) >= 2 /\ StrLen(match.definition) >= 5
    THEN <<[term |-> match.term, definition |-> match.definition,
            source_provision |-> provisionRef]>>
    ELSE <<>>

\* the first while loop of extractDefinitionsFromProvision
RECURSIVE NumberedLoop(_, _, _)
NumberedPush(content, m, provisionRef) ==
    IF m.found
    THEN PushIf(m, provisionRef) \o NumberedLoop(content, m.lastIndex, provisionRef)
    ELSE <<>>
NumberedLoop(content, lastIndex, provisionRef) ==
    NumberedPush(content,
                 NumberedExec(content,
                              IF lastIndex = 0 THEN 1 ELSE LineEnd(content, lastIndex + 1)),
                 provisionRef)

\* a match of the quoted pattern whose low quotation mark is at position q
QuotedAt(text, q) ==
    LET n == Len(text)
        closes == {i \in (q + 1)..n : text[i] = HighQuote}
        close == Least(closes)
        w1 == SkipWs(text, close + 1)
        w2 == SkipWs(text, w1 + 1)
        \* the end of [^\n]{5,500} begun at j
        Stop(j) ==
            LET le == LineEnd(text, j)
                fits == {e \in j..le : StrLen(SubSeq(text, j, e - 1)) <= 500}
            IN CHOOSE e \in fits : \A k \in fits : k <= e
        starts == {j \in (w1 + 1)..w2 : j <= n /\ StrLen(SubSeq(text, j, Stop(j) - 1)) >= 5}
        j0 == CHOOSE j \in starts : \A k \in starts : k <= j
    IN IF /\ closes # {}
          /\ StrLen(SubSeq(text, q + 1, close - 1)) >= 2
          /\ StrLen(SubSeq(text, q + 1, close - 1)) <= 140
          /\ w1 <= n /\ IsDash(text[w1])
          /\ starts # {}
       THEN [found |-> TRUE,
             term |-> TrimWs(SubSeq(text, q + 1, close - 1)),
             definition |-> TrimWs(SubSeq(text, j0, Stop(j0) - 1)),
             lastIndex |-> Stop(j0) - 1]
       ELSE NoMatch

\* the second while loop of extractDefinitionsFromProvision
RECURSIVE QuotedLoop(_, _, _)
QuotedLoop(content, lastIndex, provisionRef) ==
    LET opens == {i \in (lastIndex + 1)..Len(content) :
                     content[i] = LowQuote /\ QuotedAt(content, i).found}
        m == QuotedAt(content, Least(opens))
    IN IF opens = {} THEN <<>>
       ELSE PushIf(m, provisionRef) \o QuotedLoop(content, m.lastIndex, provisionRef)

\* `${def.term.toLowerCase()}|${def.definition}`
DefinitionKey(def) == LowerStr(def.term) \o <<"|">> \o def.definition

\* the elements of defs from the k-th on that no earlier element equals in key
RECURSIVE DedupeFrom(_, _)
DedupeFrom(defs, k) ==
    IF k > Len(defs) THEN <<>>
    ELSE (IF \E j \in 1..(k - 1) : DefinitionKey(defs[j]) = DefinitionKey(defs[k])
          THEN <<>> ELSE <<defs[k]>>) \o DedupeFrom(defs, k + 1)

\* extractDefinitionsFromProvision
extractDefinitionsFromProvision(content, provisionRef) ==
    DedupeFrom(NumberedLoop(content, 0, provisionRef)
               \o QuotedLoop(content, 0, provisionRef), 1)

\* /sa,vok|apibre'z^|s^iame i,statyme vartojam/i.test(text)
HasTrigger(text) ==
    \E k \in 1..Len(text) :
        LowerOf(text[k]) \in {"sa,vok", "apibre'z^", "s^iame i,statyme vartojam"}

\* definitions.slice(0, 200)
DefinitionCap == 200

\* the whole list is returned
CapDefinitions_All(defs) == defs

\* definitions.slice(0, 200)
CapDefinitions(defs) == SubSeq(defs, 1, MinOf(DefinitionCap, Len(defs)))

\* no heading is passed over
Discards_Never(content) == FALSE

\* if (!content) continue
Discards(content) == content = <<>>

\* the title of a provision
TitleOf(section, titleTail) ==
    IF titleTail # <<>>
    THEN section \o <<" ", "straipsnis", ".", " ">> \o titleTail
    ELSE section \o <<" ", "straipsnis">>

\* the extraction runs on every provision
UsesDefinitions_Always(title, content) == TRUE

\* the test of the trigger keywords on `${title}\n${content}`
UsesDefinitions(title, content) == HasTrigger(title \o <<"\n">> \o content)

\* relevant.slice(start, end) for markers[i]
SliceOf(relevant, markers, i) ==
    LET start == markers[i].index + markers[i].matchLength
        end == IF i < Len(markers) THEN markers[i + 1].index ELSE Len(relevant)
    IN SubSeq(relevant, start + 1, end)

\* the provision pushed for a marker, and the definitions pushed with it
Pushed(chapters, current, section, promoted, title, provisionRef) ==
    IF Discards(promoted.content)
    THEN [provisions |-> <<>>, definitions |-> <<>>]
    ELSE [provisions |->
             <<[provision_ref |-> provisionRef,
                chapter |-> chapterForIndex(chapters, current.index),
                section |-> section,
                title |-> title,
                content |-> promoted.content]>>,
          definitions |->
             IF UsesDefinitions(title, promoted.content)
             THEN extractDefinitionsFromProvision(promoted.content, provisionRef)
             ELSE <<>>]
Promote(chapters, current, section, promoted) ==
    Pushed(chapters, current, section, promoted,
           TitleOf(section, promoted.titleTail), makeProvisionRef(section))

\* one turn of the for loop of parseLithuanianLawText, for markers[i]: the
\* provision pushed (none if the content is empty) and its definitions
ArticleOf(relevant, chapters, markers, i) ==
    Promote(chapters, markers[i], sanitizeSection(markers[i].section),
            maybePromoteFirstLineAsTitle(markers[i].titleTail,
                                         cleanContent(SliceOf(relevant, markers, i))))

\* the statuses mapStatus returns
InForce == "in_force"
Repealed == "repealed"

\* doc.galioj_busena: null or absent
NoStatus == <<"null">>

\* mapStatus with the value compared as written
mapStatus_AsWritten(value) ==
    IF value = <<"n", "e", "g", "a", "l", "i", "o", "j", "a">> THEN Repealed ELSE InForce

\* mapStatus: (value ?? '').trim().toLowerCase() is compared
mapStatus(value) ==
    LET normalized == LowerStr(TrimWs(IF value = NoStatus THEN <<>> ELSE value))
    IN IF normalized = <<"g", "a", "l", "i", "o", "j", "a">> THEN InForce
       ELSE IF normalized = <<"n", "e", "g", "a", "l", "i", "o", "j", "a">> THEN Repealed
       ELSE InForce

\* ------------------------------------------------------------------------
\* Inputs: texts of up to MaxLines lines taken from two small sets of
\* lines, one text with more definitions than the cap, and the values of
\* galioj_busena
\* ------------------------------------------------------------------------
MaxLines == 4
\* documents segmented by one process, and the lines of the texts after
\* the first
MaxTexts == 2
LaterLines == 2

SegmentLines ==
    {<<"1", " ", "straipsnis", ".", " ", "A", "b">>,
     <<"1", "A", " ", "straipsnis", ".", " ", "b", "\r">>,
     <<"\t", "1", "a", " ", "Straipsnis", ".", "nbsp", "b">>,
     <<"a", "b">>,
     <<>>,
     <<"1">>,
     <<"straipsnis", ".", " ", "b">>,
     <<"I", " ", "SKYRIUS">>}

DefinitionLines ==
    {<<"1", " ", "straipsnis", ".", " ", "Sa,vok">>,
     <<"2", " ", "straipsnis", ".", " ", "Sa,vok">>,
     <<"1", ".", " ", "A", "b", " ", "-", " ", "c", "d", "e", "f", "g">>,
     <<"lq", "x", "y", "rq", " ", "endash", " ", "c", "d", "e", "f", "g">>,
     <<"2", ".", " ", "x", "y", " ", "emdash", " ", "z">>,
     <<"apibre'z^", "t", "i">>,
     <<"Pakeitimai:">>,
     <<"3", " ", "straipsnis", ".", " ", "A", "b">>}

\* headings with labels out of numeric order, one of them alone on its line
LabelLines ==
    {<<"4", "-", "1", " ", "straipsnis", ".">>,
     <<"a", "b">>,
     <<"5", " ", "straipsnis", ".", " ", "b">>,
     <<"4", " ", "straipsnis", ".", " ", "A", "b">>}

TextsOf(lines) ==
    {JoinLines(q) : q \in UNION {[1..n -> lines] : n \in 0..MaxLines}}

\* a text of ManyArticles articles of ItemsEach lines, each line holding a
\* numbered and a quoted definition: more definitions than DefinitionCap
ManyArticles == 6
ItemsEach == 17
ManyItem(a, k) ==
    <<"1", ".", " ", "a", "b", " ", "-", " ", LowQuote, "x", "y", HighQuote, " ",
      EnDash, " ", "c", "d", "e", "f">> \o Decimal(a) \o <<"x">> \o Decimal(k)
ManyArticle(a) ==
    JoinLines(<<Decimal(a) \o <<" ", "straipsnis", ".", " ", "Sa,vok">>>> \o
              [k \in 1..ItemsEach |-> ManyItem(a, k)])
ManyDefinitions == JoinLines([a \in 1..ManyArticles |-> ManyArticle(a)])

Texts ==
    TextsOf(SegmentLines) \cup TextsOf(DefinitionLines) \cup TextsOf(LabelLines)
        \cup {ManyDefinitions}

StatusValues ==
    {NoStatus,
     <<>>,
     <<"g", "a", "l", "i", "o", "j", "a">>,
     <<" ", "G", "a", "l", "i", "o", "j", "a", "\t">>,
     <<"n", "e", "g", "a", "l", "i", "o", "j", "a">>,
     <<"N", "E", "G", "A", "L", "I", "O", "J", "A", " ">>,
     <<"n", "e", " ", "g", "a", "l", "i", "o", "j", "a">>,
     <<"g", "a", "l", "i", "o", "j", "a", "n", "t", "i", "s">>,
     <<"a", "m", "e", "n", "d", "e", "d">>}

\* the text and the status of the document a seed is made from
SeedInputs == (Texts \X {NoStatus}) \cup ({<<>>} \X StatusValues)

\* the documents after the first
LaterInputs ==
    {JoinLines(q) : q \in UNION {[1..n -> SegmentLines] : n \in 0..LaterLines}}
        \X {NoStatus}

\* ------------------------------------------------------------------------
\* State and steps: one call of parseLithuanianLawText, turn by turn of its
\* for loop, then the status of the seed record
\* ------------------------------------------------------------------------
NoResult == [provisions |-> <<>>, definitions |-> <<>>]

InitSeed ==
    /\ spc = "start"
    /\ \E input \in SeedInputs :
          /\ inputText = input[1]
          /\ galioj_busena = input[2]
    /\ headingLastIndex = 0
    /\ relevantText = <<>>
    /\ chapterMarkers = <<>>
    /\ articleMarkers = <<>>
    /\ markerIdx = 0
    /\ provisions = <<>>
    /\ definitions = <<>>
    /\ parseResult = NoResult
    /\ seedStatus = ""
    /\ segmented = 0

SeedIdle ==
    /\ spc = "idle"
    /\ inputText = <<>>
    /\ galioj_busena = NoStatus
    /\ headingLastIndex = 0
    /\ relevantText = <<>>
    /\ chapterMarkers = <<>>
    /\ articleMarkers = <<>>
    /\ markerIdx = 0
    /\ provisions = <<>>
    /\ definitions = <<>>
    /\ parseResult = NoResult
    /\ seedStatus = ""
    /\ segmented = 0

\* parseLithuanianLawText, lines 203-207: no article heading, empty result
parse_empty ==
    /\ spc = "start"
    /\ FirstArticle(trimTrailingSections(normalizeInput(inputText))) < 0
    /\ parseResult' = NoResult
    /\ spc' = "parsed"
    /\ UNCHANGED <<inputText, galioj_busena, headingLastIndex, relevantText, chapterMarkers, articleMarkers,
                   markerIdx, provisions, definitions, seedStatus>>
    /\ UNCHANGED <<segmented, fetchVars, ingestVars, idVars, runVars, metaVars>>

\* parseLithuanianLawText, lines 203-214: the text from the first heading
\* on, its chapter markers and its article markers
parse_enter ==
    /\ spc = "start"
    /\ LET normalized == trimTrailingSections(normalizeInput(inputText))
           firstArticle == FirstArticle(normalized)
           rel == SubSeq(normalized, firstArticle + 1, Len(normalized))
       IN /\ firstArticle >= 0
          /\ relevantText' = rel
          /\ chapterMarkers' = parseChapterMarkers(rel)
          /\ articleMarkers' = collectArticleMarkers(rel, headingLastIndex)
          /\ headingLastIndex' = ArticleLastIndex(rel, headingLastIndex)
    /\ markerIdx' = 0
    /\ provisions' = <<>>
    /\ definitions' = <<>>
    /\ spc' = "articles"
    /\ UNCHANGED <<inputText, galioj_busena, parseResult, seedStatus>>
    /\ UNCHANGED <<segmented, fetchVars, ingestVars, idVars, runVars, metaVars>>

\* lines 216-231: a heading whose content is empty gives no provision
parse_skip ==
    /\ spc = "articles"
    /\ markerIdx < Len(articleMarkers)
    /\ ArticleOf(relevantText, chapterMarkers, articleMarkers, markerIdx + 1).provisions = <<>>
    /\ markerIdx' = markerIdx + 1
    /\ UNCHANGED <<spc, inputText, galioj_busena, headingLastIndex, relevantText, chapterMarkers, articleMarkers,
                   provisions, definitions, parseResult, seedStatus>>
    /\ UNCHANGED <<segmented, fetchVars, ingestVars, idVars, runVars, metaVars>>

\* the provision is put in front of the list instead of at its end
parse_push_Front ==
    /\ spc = "articles"
    /\ markerIdx < Len(articleMarkers)
    /\ LET one == ArticleOf(relevantText, chapterMarkers, articleMarkers, markerIdx + 1)
       IN /\ one.provisions # <<>>
          /\ provisions' = one.provisions \o provisions
          /\ definitions' = definitions \o one.definitions
    /\ markerIdx' = markerIdx + 1
    /\ UNCHANGED <<spc, inputText, galioj_busena, headingLastIndex, relevantText, chapterMarkers, articleMarkers,
                   parseResult, seedStatus>>
    /\ UNCHANGED <<segmented, fetchVars, ingestVars, idVars, runVars, metaVars>>

\* lines 216-248: a provision is pushed, with the definitions it holds
parse_push ==
    /\ spc = "articles"
    /\ markerIdx < Len(articleMarkers)
    /\ LET one == ArticleOf(relevantText, chapterMarkers, articleMarkers, markerIdx + 1)
       IN /\ one.provisions # <<>>
          /\ provisions' = provisions \o one.provisions
          /\ definitions' = definitions \o one.definitions
    /\ markerIdx' = markerIdx + 1
    /\ UNCHANGED <<spc, inputText, galioj_busena, headingLastIndex, relevantText, chapterMarkers, articleMarkers,
                   parseResult, seedStatus>>
    /\ UNCHANGED <<segmented, fetchVars, ingestVars, idVars, runVars, metaVars>>

\* lines 251-254: the result, with at most DefinitionCap definitions
parse_return ==
    /\ spc = "articles"
    /\ markerIdx = Len(articleMarkers)
    /\ parseResult' = [provisions |-> provisions, definitions |-> CapDefinitions(definitions)]
    /\ spc' = "parsed"
    /\ UNCHANGED <<inputText, galioj_busena, headingLastIndex, relevantText, chapterMarkers, articleMarkers,
                   markerIdx, provisions, definitions, seedStatus>>
    /\ UNCHANGED <<segmented, fetchVars, ingestVars, idVars, runVars, metaVars>>

\* main, line 637: status: mapStatus(doc.galioj_busena)
seed_status ==
    /\ spc = "parsed"
    /\ seedStatus' = mapStatus(galioj_busena)
    /\ spc' = "done"
    /\ segmented' = segmented + 1
    /\ UNCHANGED <<inputText, galioj_busena, headingLastIndex, relevantText, chapterMarkers, articleMarkers,
                   markerIdx, provisions, definitions, parseResult>>
    /\ UNCHANGED <<fetchVars, ingestVars, idVars, runVars, metaVars>>

\* main, line 591: the for loop goes on to the next document, in the same
\* process: the locals are fresh, the matcher's lastIndex is what it was
seed_next ==
    /\ spc = "done"
    /\ segmented < MaxTexts
    /\ \E input \in LaterInputs :
          /\ inputText' = input[1]
          /\ galioj_busena' = input[2]
    /\ relevantText' = <<>>
    /\ chapterMarkers' = <<>>
    /\ articleMarkers' = <<>>
    /\ markerIdx' = 0
    /\ provisions' = <<>>
    /\ definitions' = <<>>
    /\ parseResult' = NoResult
    /\ seedStatus' = ""
    /\ spc' = "start"
    /\ UNCHANGED <<headingLastIndex, segmented, fetchVars, ingestVars, idVars, runVars, metaVars>>

NextSeed ==
    \/ parse_empty
    \/ parse_enter
    \/ parse_skip
    \/ parse_push
    \/ parse_return
    \/ seed_status
    \/ seed_next

\* ========================================================================
\* Part VI.  Response metadata (src/utils/metadata.ts)
\*
\* The database is the table db_metadata, a set of rows (key, value) with
\* key as primary key, or a database on which the query raises (the table
\* is missing, the connection is closed).
\* ========================================================================

\* the keys and values of db_metadata in the databases, "" included
MetaKeys == {"built_at", "schema_version", "tier"}
MetaValues == {"2026-02-14T09:30:00.000Z", "2025-12-31", "4", ""}

\* freshness: undefined
Undefined == "undefined"

\* a database whose query raises
Raising == {"no such table: db_metadata", "The database connection is not open"}

\* the tables: a value for some of the keys
MetaTables == UNION {[keys -> MetaValues] : keys \in SUBSET MetaKeys}
Databases == [raises : {FALSE}, table : MetaTables, error : {""}]
                 \cup [raises : {TRUE}, table : {<<>>}, error : Raising]

NoBuiltAt == <<>>

\* the same query without its WHERE clause: the first row of the table
BuiltAtRow_AnyKey(database) ==
    IF DOMAIN database.table # {}
    THEN <<[value |-> database.table[CHOOSE k \in DOMAIN database.table : TRUE]]>>
    ELSE NoBuiltAt

\* db.prepare("SELECT value FROM db_metadata WHERE key = 'built_at'").get():
\* the row of that key, or undefined (no row)
BuiltAtRow(database) ==
    IF "built_at" \in DOMAIN database.table
    THEN <<[value |-> database.table["built_at"]]>>
    ELSE NoBuiltAt

\* the three constant fields of the metadata, data_source and disclaimer
\* cut at the host name
DataSource == <<"TAR (Teises aktu registras) (", "www.e-tar.lt",
                ") - Seimas of the Republic of Lithuania">>
Jurisdiction == "LT"
Disclaimer ==
    <<"This data is sourced from the TAR (Teises aktu registras) under public domain. ",
      "The authoritative versions are maintained by the Seimas of the Republic of Lithuania. ",
      "Always verify with the official TAR (Teises aktu registras) portal (",
      "www.e-tar.lt", ").">>

\* the object returned by generateResponseMetadata, lines 32-40
MetadataWith(freshness) ==
    [data_source |-> DataSource,
     jurisdiction |-> Jurisdiction,
     disclaimer |-> Disclaimer,
     freshness |-> freshness]

NoMetadata == [data_source |-> <<>>, jurisdiction |-> "", disclaimer |-> <<>>,
               freshness |-> Undefined]

InitMeta ==
    /\ mpc = "call"
    /\ metaDb \in Databases
    /\ metadata = NoMetadata

MetaIdle ==
    /\ mpc = "idle"
    /\ metaDb = [raises |-> FALSE, table |-> <<>>, error |-> ""]
    /\ metadata = NoMetadata

\* generateResponseMetadata, lines 22-27 and 32-40: the query gives a row
metadata_row ==
    /\ mpc = "call"
    /\ ~metaDb.raises
    /\ BuiltAtRow(metaDb) # NoBuiltAt
    /\ metadata' = MetadataWith(BuiltAtRow(metaDb)[1].value)
    /\ mpc' = "returned"
    /\ UNCHANGED <<metaDb, fetchVars, ingestVars, idVars, runVars, seedVars>>

\* lines 22-27 and 32-40: the query gives undefined, freshness is not set
metadata_norow ==
    /\ mpc = "call"
    /\ ~metaDb.raises
    /\ BuiltAtRow(metaDb) = NoBuiltAt
    /\ metadata' = MetadataWith(Undefined)
    /\ mpc' = "returned"
    /\ UNCHANGED <<metaDb, fetchVars, ingestVars, idVars, runVars, seedVars>>

\* lines 23-30 and 32-40: prepare or get raises, the catch block is empty
metadata_catch ==
    /\ mpc = "call"
    /\ metaDb.raises
    /\ metadata' = MetadataWith(Undefined)
    /\ mpc' = "returned"
    /\ UNCHANGED <<metaDb, fetchVars, ingestVars, idVars, runVars, seedVars>>

NextMeta ==
    \/ metadata_row
    \/ metadata_norow
    \/ metadata_catch

\* ------------------------------------------------------------------------
\* Specifications
\* ------------------------------------------------------------------------
vars == <<fetchVars, ingestVars, idVars, runVars, seedVars, metaVars>>

\* the fetch client, driven by a sequence of paginated fetches
InitFetchRun == InitFetch /\ IngestIdle /\ IdsIdle /\ RunsIdle /\ SeedIdle /\ MetaIdle
SpecFetch == InitFetchRun /\ [][NextFetch]_vars

\* main() from the edition-metadata phase on; every batched fetch is one step
\* that returns the server's rows or throws
InitIngestRun == InitFetch /\ ~endless /\ InitIngest /\ IdsIdle /\ RunsIdle /\ SeedIdle /\ MetaIdle
SpecIngest == InitIngestRun /\ [][NextIngest]_vars

\* buildSeedIdMap applied to every corpus of Corpora
InitIdsRun == InitFetch /\ ~endless /\ IngestIdle /\ InitIds /\ RunsIdle /\ SeedIdle /\ MetaIdle
SpecIds == InitIdsRun /\ [][NextIds]_vars

\* runs of main() over one registry snapshot and one pair of output directories
InitRunsRun == InitFetch /\ ~endless /\ IdsIdle /\ InitRuns /\ SeedIdle /\ MetaIdle
SpecRuns == InitRunsRun /\ [][NextRuns]_vars

\* the parts of one seed record made from a document: the segmenter applied
\* to its text, mapStatus applied to its status
InitSeedRun ==
    InitFetch /\ ~endless /\ IngestIdle /\ IdsIdle /\ RunsIdle /\ InitSeed /\ MetaIdle
SpecSeed == InitSeedRun /\ [][NextSeed]_vars

\* calls of generateResponseMetadata
InitMetaRun ==
    InitFetch /\ ~endless /\ IngestIdle /\ IdsIdle /\ RunsIdle /\ SeedIdle /\ InitMeta
SpecMeta == InitMetaRun /\ [][NextMeta]_vars

\* ========================================================================
\* Claims about the fetch client (SpecFetch)
\* ========================================================================

RetryableStatus(status) == status = 429 \/ status >= 500

\* C1: any two consecutive outbound requests of a run (retries of one call,
\* successive pages, successive calls) start at least MIN_DELAY_MS apart.
C1_MinSpacing ==
    prevStart # NoTime => lastStart - prevStart >= MIN_DELAY_MS

\* two successive pages whose spacing was produced by the limiter's sleep
C1_Witness ==
    /\ fpc = "inflight"
    /\ lastGap = "page"
    /\ prevStart # NoTime
    /\ lastStart - prevStart = MIN_DELAY_MS

\* C2: a fetchJson call answered only by 429/5xx issues exactly
\* maxRetries + 1 requests and then throws the last status and the URL,
\* returning nothing; a success on any attempt ends the call with that
\* attempt's rows and no further request for its URL.
C2_RetryCeiling ==
    /\ reqInJson <= maxRetries + 1
    /\ (failure.kind = "http" /\ RetryableStatus(failure.status)) =>
          /\ reqInJson = maxRetries + 1
          /\ failure.status = lastResp.status
          /\ failure.url = lastResp.url
          /\ fpc = "aborted"
          /\ ~returned
          /\ result = <<>>
    /\ (lastResp.kind = "http" /\ RetryableStatus(lastResp.status)
           /\ lastResp.attempt < maxRetries) =>
          /\ lastResp.outcome = "retry"
          /\ failure.kind = "none"
    /\ fpc = "inflight" =>
          /\ TheRequest.attempt + 1 = reqInJson
          /\ TheRequest.attempt > 0 =>
                /\ lastResp.outcome = "retry"
                /\ lastResp.url = TheRequest.url
                /\ lastResp.attempt + 1 = TheRequest.attempt
    /\ (lastResp.kind = "http" /\ ResponseOk(lastResp.status)) =>
          /\ lastResp.got = lastResp.rows
          /\ lastResp.outcome # "retry"
          /\ \A r \in inflight : r.attempt = 0 /\ r.url # lastResp.url

\* the fourth consecutive 503 has been answered with the fatal error
C2_Witness ==
    /\ failure.kind = "http"
    /\ failure.status = 503
    /\ reqInJson = maxRetries + 1
    /\ lastResp.attempt = maxRetries

\* C3: a non-success status other than 429 and below 500 is fatal on the
\* attempt it occurs on: the error is thrown at once, no sleep and no
\* request follow.
C3_NonRetryableFatal ==
    (lastResp.kind = "http" /\ ~ResponseOk(lastResp.status)
        /\ ~RetryableStatus(lastResp.status)) =>
       /\ lastResp.outcome = "throw"
       /\ fpc = "aborted"
       /\ failure = [kind |-> "http", status |-> lastResp.status, url |-> lastResp.url]
       /\ inflight = {}
       /\ now = lastResp.at
       /\ reqInJson = lastResp.attempt + 1

\* a 404 on the third attempt (after two retried failures) aborted the call
C3_Witness ==
    /\ lastResp.kind = "http"
    /\ lastResp.status = 404
    /\ lastResp.attempt = 2
    /\ fpc = "aborted"

\* C4: a request that fails at the network level is retried with backoff
\* and aborts the run only once the retry ceiling is exhausted.
C4_NetworkFailureRetried ==
    (lastResp.kind = "network" /\ fpc = "aborted") => lastResp.attempt = maxRetries

\* C5: a paginated fetch requests offsets 0, pageSize, 2*pageSize, ... in
\* order, returns right after the first page shorter than pageSize (empty
\* or without data array included) and returns the concatenation of all
\* received pages in request order.
C5_Pagination ==
    /\ fpc = "inflight" =>
          /\ TheRequest.url.offset = pageSize * fullPages
          /\ TheRequest.url.limit = pageSize
          /\ served = pageSize * fullPages
    /\ (lastResp.kind = "http" /\ ResponseOk(lastResp.status)
           /\ RowCount(lastResp.rows) < pageSize) =>
          /\ returned
          /\ fpc = "idle"
          /\ inflight = {}
          /\ lastResp.outcome = "return"
    /\ returned =>
          /\ lastResp.outcome = "return"
          /\ RowCount(lastResp.rows) < pageSize
          /\ lastResp.url.offset = pageSize * fullPages
          /\ result = PageRows(0, served)

\* two full pages and a short third page were received and returned
C5_Witness ==
    /\ returned
    /\ fullPages = 2
    /\ RowCount(result) = 3 * pageSize - 1

\* C6: no page is requested beyond the offset ceiling; over a data set of
\* full pages only, the fetch requests every offset up to the ceiling and
\* then throws the pagination error, returning no rows; the number of
\* pages of one paginated fetch is bounded.
C6_OffsetCeiling ==
    /\ \A r \in inflight : r.url.offset <= OffsetCeiling
    /\ pageSize > 0 => fullPages <= (OffsetCeiling \div pageSize) + 1
    /\ failure.kind = "pagination" =>
          /\ failure.url.offset = OffsetCeiling
          /\ fullPages = (OffsetCeiling \div pageSize) + 1
          /\ offset > OffsetCeiling
          /\ fpc = "aborted"
          /\ ~returned
          /\ result = <<>>
    /\ endless => ~returned
    /\ (endless /\ fpc = "aborted" /\ faults = 0) => failure.kind = "pagination"

\* the page at offset 2,000,000 of an endless data set was answered
C6_Witness ==
    /\ failure.kind = "pagination"
    /\ pageSize = 5000
    /\ fullPages = 401
    /\ failure.url.offset = 2000000

\* ========================================================================
\* Claims about edition metadata, the resolver and the fallback (SpecIngest)
\* ========================================================================

\* a text that is non-empty after trimming: it has a character other than a space
HasContent(t) == \E k \in 1..Len(t) : t[k] # " "

\* the text between the first and the last character other than a space
Trimmed(t) ==
    LET idx == {k \in 1..Len(t) : t[k] # " "}
    IN IF idx = {} THEN <<>>
       ELSE SubSeq(t, CHOOSE k \in idx : \A j \in idx : k <= j,
                      CHOOSE k \in idx : \A j \in idx : k >= j)

\* the edition list of a document after the metadata phase
ListOf(d) == GetOr(editionsByDoc, d, <<>>)

\* the number of list positions the resolver may try for document d
Reach(d) == IF Len(ListOf(d)) < args.maxSuvestineRounds
            THEN Len(ListOf(d)) ELSE args.maxSuvestineRounds

\* the text the server delivered for the edition at position k (from 0) of d
ServedAt(d, k) == GetOr(textServed, ListOf(d)[k + 1].suvestines_id, NoRow)
WasServed(d, k) == ListOf(d)[k + 1].suvestines_id \in DOMAIN textServed

ResolverReturned == ipc \in {"fallback", "merged"}

\* C7: the resolver selects, for every document, the edition at the
\* smallest position k < min(maxRounds, length) whose fetched text is
\* non-empty after trimming, in round k, and records the edition-level
\* model, the trimmed text and the link.
C7_SelectsFirstNonEmpty ==
    /\ \A d \in DOMAIN selected :
          LET k == resolvedRound[d]
              src == selected[d]
          IN /\ d \in DOMAIN resolvedRound
             /\ k < Reach(d)
             /\ src.edition = ListOf(d)[k + 1]
             /\ WasServed(d, k) /\ HasContent(ServedAt(d, k).tekstas_lt)
             /\ \A j \in 0..(k - 1) :
                   WasServed(d, j) /\ ~HasContent(ServedAt(d, j).tekstas_lt)
             /\ src.sourceModel = "Suvestine"
             /\ src.text = Trimmed(ServedAt(d, k).tekstas_lt)
             /\ src.sourceUrl = (IF ServedAt(d, k).nuoroda # NullLink
                                 THEN ServedAt(d, k).nuoroda
                                 ELSE ListOf(d)[k + 1].nuoroda)
    /\ ResolverReturned =>
          \A d \in Range(targetDocs) \ DOMAIN selected :
             \A j \in 0..(Reach(d) - 1) :
                WasServed(d, j) /\ ~HasContent(ServedAt(d, j).tekstas_lt)

\* [E1 (empty text), E2 (has text)]: round 0 tried E1, round 1 resolved via E2
C7_Witness ==
    /\ ResolverReturned
    /\ "d1" \in DOMAIN selected
    /\ Len(ListOf("d1")) = 2
    /\ resolvedRound["d1"] = 1
    /\ WasServed("d1", 0) /\ ~HasContent(ServedAt("d1", 0).tekstas_lt)
    /\ selected["d1"].edition = ListOf("d1")[2]

RemoveAt(q, k) == SubSeq(q, 1, k - 1) \o SubSeq(q, k + 1, Len(q))

\* the preferred edition of document d is in its list
PreferredPresent(d) ==
    /\ d \in DOMAIN KNOWN_BY_DOCUMENT
    /\ FindIndex(ListOf(d), KNOWN_BY_DOCUMENT[d].preferredEditionId) > 0

MetadataDone == ipc \in {"resolve", "round", "texts", "fallback", "merged"}

\* C8 (pinning step): the second loop of collectSuvestineMetadata puts a
\* preferred edition found behind the front of the sorted list at
\* position 0 and leaves the order of the other editions as sorted.
C8_PinStep ==
    (ipc = "meta" /\ ipc' = "resolve") =>
       \A d \in Range(targetDocs) \cap DOMAIN KNOWN_BY_DOCUMENT :
          LET sorted == sortEditionsNewestFirst(Dedupe(GetOr(editionsByDoc, d, <<>>), <<>>))
              idx == FindIndex(sorted, KNOWN_BY_DOCUMENT[d].preferredEditionId)
          IN idx > 1 =>
                /\ editionsByDoc'[d][1] = sorted[idx]
                /\ Tail(editionsByDoc'[d]) = RemoveAt(sorted, idx)

\* C8 (resolution): a preferred edition present in the list is the round-0
\* candidate, and when its text is non-empty the document resolves to it
\* in round 0 and no other edition of the document is requested.
C8_PreferredFirst ==
    \A d \in Range(targetDocs) :
       (MetadataDone /\ PreferredPresent(d)) =>
          /\ ListOf(d)[1].suvestines_id = KNOWN_BY_DOCUMENT[d].preferredEditionId
          /\ (WasServed(d, 0) /\ HasContent(ServedAt(d, 0).tekstas_lt)
                /\ ipc \in {"round", "fallback", "merged"}) =>
                /\ d \in DOMAIN selected
                /\ selected[d].edition.suvestines_id
                      = KNOWN_BY_DOCUMENT[d].preferredEditionId
                /\ resolvedRound[d] = 0
                /\ \A k \in 1..(Len(ListOf(d)) - 1) : ~WasServed(d, k)

\* C8: a configured preferred edition that is in the list but not the
\* newest is moved to position 0, the other editions keep their order,
\* and when its text is non-empty the document resolves to it in round 0.
C8_PreferredPinned == [][C8_PinStep]_vars /\ [](C8_PreferredFirst)

\* the preferred edition was the oldest of three and resolved in round 0
C8_Witness ==
    /\ ResolverReturned
    /\ Len(ListOf("d1")) = 3
    /\ ListOf("d1")[1].suvestines_id = "e2"
    /\ ListOf("d1")[1].galioja_nuo < ListOf("d1")[3].galioja_nuo
    /\ "d1" \in DOMAIN selected
    /\ selected["d1"].edition.suvestines_id = "e2"
    /\ resolvedRound["d1"] = 0

\* the editions of document d whose text was requested, in request order
TriedOf(d) == SelectSeqBy(textRequested, EditionIds(d))

\* C9: for a document without a present preferred edition, the first
\* edition tried is the one in force (galioja_iki absent) whenever the
\* list has one.
C9_InForceFirst ==
    \A d \in Range(targetDocs) :
       (MetadataDone /\ ~PreferredPresent(d) /\ TriedOf(d) # <<>>
          /\ \E k \in 1..Len(ListOf(d)) : ListOf(d)[k].galioja_iki = Null) =>
          GaliojaIki(TriedOf(d)[1]) = Null

\* C10: when the resolver returns, selected and unresolved partition the
\* input documents; unresolved holds exactly the documents without edition
\* and those whose first maxRounds editions all have empty text; the
\* fallback text is requested for exactly the documents of that list.
C10_UnresolvedExact ==
    /\ fallbackRequested \subseteq Range(unresolvedAfterRounds)
    /\ ipc \in {"meta", "resolve", "round", "texts"} => unresolvedAfterRounds = <<>>
    /\ ResolverReturned =>
          /\ Range(unresolvedAfterRounds) \cap DOMAIN selected = {}
          /\ Range(unresolvedAfterRounds) \cup DOMAIN selected = Range(targetDocs)
          /\ Len(unresolvedAfterRounds) = Cardinality(Range(unresolvedAfterRounds))
          /\ \A d \in Range(targetDocs) :
                d \in Range(unresolvedAfterRounds) <=>
                   \/ ListOf(d) = <<>>
                   \/ \A j \in 0..(Reach(d) - 1) :
                         ~HasContent(ServedAt(d, j).tekstas_lt)
          /\ ipc = "merged" => fallbackRequested = Range(unresolvedAfterRounds)

\* both documents unresolved: one without edition, one cut off by maxRounds
C10_Witness ==
    /\ ipc = "merged"
    /\ unresolvedAfterRounds = <<"d1", "d2">>
    /\ ListOf("d2") = <<>>
    /\ Len(ListOf("d1")) > args.maxSuvestineRounds
    /\ fallbackRequested = {"d1", "d2"}

\* the documents that had a candidate in the last round collected
CandidateDocs == {candidates[k][1] : k \in 1..Len(candidates)}

\* the length of the longest edition list of a target document
LongestList ==
    LET lens == {Len(ListOf(d)) : d \in Range(targetDocs)} \cup {0}
    IN CHOOSE n \in lens : \A m \in lens : n >= m


\* C11 (carry): at the top of round r+1 the working set holds exactly the
\* documents of round r that did not resolve and whose list has more than
\* r+1 entries; text is fetched only for a non-empty working set and a
\* round below maxRounds; at most min(maxRounds, longest list) rounds run;
\* no text is fetched when no document has an edition.
C11_Carry ==
    /\ (ipc = "round" /\ round > 0) =>
          Range(unresolved) =
             {d \in CandidateDocs \cup Range(roundExhausted) :
                 d \notin DOMAIN selected /\ Len(ListOf(d)) > round}
    /\ ipc = "texts" => (unresolved # <<>> /\ round < args.maxSuvestineRounds)
    /\ round <= MinOf(args.maxSuvestineRounds, LongestList)
    /\ LongestList = 0 => textRequested = <<>>

\* C11 (stop): with an empty working set, or after maxRounds rounds, the
\* next step of the resolver is its return.
C11_StopStep ==
    (ipc = "round" /\ (unresolved = <<>> \/ round >= args.maxSuvestineRounds)) =>
       (ipc' = "fallback" /\ textRequested' = textRequested /\ round' = round)

\* C11: a document unresolved in round r is in round r+1's working set
\* iff its list has more than r+1 entries; the resolver stops when the
\* working set is empty or maxRounds rounds have run, after at most
\* min(maxRounds, longest list) rounds, and fetches no text when no
\* document has an edition.
C11_CarryAndStop == [][C11_StopStep]_vars /\ [](C11_Carry)

\* after round 0: d2 (one edition, empty text) dropped, d1 (more editions) carried
C11_Witness ==
    /\ ipc = "round"
    /\ round = 1
    /\ unresolved = <<"d1">>
    /\ "d2" \in CandidateDocs
    /\ "d2" \notin DOMAIN selected
    /\ Len(ListOf("d2")) = 1

\* C12 (step): a text fetch is issued only while the round's complete
\* candidate collection stands and is for editions of that collection; a
\* candidate collection, and the return of the resolver, happen only when
\* every edition of the last collection was requested and every last
\* candidate with delivered text is selected.
C12_RoundOrderStep ==
    /\ textRequested' # textRequested =>
          /\ ipc = "texts"
          /\ candidates = CollectCandidates(unresolved, round)
          /\ \E chunk \in Range(TextChunks) :
                /\ textRequested' = textRequested \o chunk
                /\ Range(chunk) \subseteq
                      {candidates[k][2].suvestines_id : k \in 1..Len(candidates)}
    /\ (ipc = "round" /\ ipc' \in {"texts", "fallback"} /\ round > 0) =>
          \A k \in 1..Len(candidates) :
             LET id == candidates[k][2].suvestines_id
             IN /\ id \in Range(textRequested)
                /\ id \in DOMAIN textServed
                /\ HasContent(textServed[id].tekstas_lt) =>
                      candidates[k][1] \in DOMAIN selected
    /\ candidates' # candidates => (ipc = "round" /\ ipc' = "texts")

\* C12: within a round all candidates are collected before the round's
\* first text fetch; the next round's collection begins only after every
\* text fetch and the bookkeeping of the round are done.
C12_RoundOrder == [][C12_RoundOrderStep]_vars

\* round 1 has fetched its text after round 0 fetched two chunks
C12_Witness ==
    /\ ipc = "texts"
    /\ round = 1
    /\ chunkIdx = Len(TextChunks)
    /\ args.chunkTexts = 1
    /\ Len(textRequested) = 3

\* C13 (state): at most one request awaits its response, and one does
\* exactly while the client is suspended on fetch().
C13_Inv ==
    /\ Cardinality(inflight) <= 1
    /\ (inflight # {}) <=> (fpc = "inflight")

\* C13 (step): a request, a sleep and a new paginated fetch (the next
\* chunk or phase) start only when no request is in flight; a new
\* paginated fetch starts only after the previous one has returned.
C13_Step ==
    /\ (inflight' # inflight /\ inflight' # {}) =>
          (inflight = {} /\ (reqInCall = 0 \/ lastResp.outcome \in {"retry", "page"}))
    /\ (fpc \in {"limit", "backoff"} /\ now' # now) => (inflight = {} /\ inflight' = {})
    /\ calls' # calls => (inflight = {} /\ (calls = 0 \/ returned))

\* C13: at every moment at most one outbound request is in flight; a
\* request, a rate-limit sleep or a backoff sleep starts only after the
\* previous response has been handled; consecutive paginated fetches
\* (chunks, phases) never overlap.
C13_OneInFlight == [][C13_Step]_vars /\ [](C13_Inv)

\* the second page of the second paginated fetch is in flight
C13_Witness ==
    /\ calls = 2
    /\ fpc = "inflight"
    /\ reqInCall = 2
    /\ Cardinality(inflight) = 1

\* galioja_nuo never increases along q
Descending(q) == \A k \in 1..(Len(q) - 1) : q[k].galioja_nuo >= q[k + 1].galioja_nuo

\* C14 (step): the second loop of collectSuvestineMetadata gives every
\* target document a list with the edition identifiers of its rows, each
\* entry being a row of greatest galioja_nuo among those sharing its
\* identifier.
C14_DedupeStep ==
    (ipc = "meta" /\ ipc' = "resolve") =>
       \A d \in Range(targetDocs) :
          LET raw == GetOr(editionsByDoc, d, <<>>)
              list == editionsByDoc'[d]
          IN /\ d \in DOMAIN editionsByDoc'
             /\ {list[k].suvestines_id : k \in 1..Len(list)}
                   = {raw[k].suvestines_id : k \in 1..Len(raw)}
             /\ \A k \in 1..Len(list) :
                   /\ list[k] \in Range(raw)
                   /\ \A j \in 1..Len(raw) :
                         raw[j].suvestines_id = list[k].suvestines_id =>
                            raw[j].galioja_nuo <= list[k].galioja_nuo

\* C14 (state): after the metadata phase every target document has a list
\* without repeated edition identifier, in descending galioja_nuo order
\* except for a present preferred edition, which is at position 0.
C14_Lists ==
    MetadataDone =>
       \A d \in Range(targetDocs) :
          /\ d \in DOMAIN editionsByDoc
          /\ \A j, k \in 1..Len(ListOf(d)) :
                ListOf(d)[j].suvestines_id = ListOf(d)[k].suvestines_id => j = k
          /\ IF PreferredPresent(d)
             THEN /\ ListOf(d)[1].suvestines_id = KNOWN_BY_DOCUMENT[d].preferredEditionId
                  /\ Descending(Tail(ListOf(d)))
             ELSE Descending(ListOf(d))

\* C14: after the edition-metadata phase every target document has an
\* edition list (possibly empty) without repeated identifier (a row of
\* greatest valid-from kept), in descending valid-from order except that a
\* present preferred edition is at position 0.
C14_EditionLists == [][C14_DedupeStep]_vars /\ [](C14_Lists)

\* an older preferred edition in front of a newer one; a document without editions
C14_Witness ==
    /\ ipc = "resolve"
    /\ targetDocs = <<"d1", "d2">>
    /\ Len(ListOf("d1")) = 2
    /\ ListOf("d1")[1].suvestines_id = "e2"
    /\ ListOf("d1")[1].galioja_nuo < ListOf("d1")[2].galioja_nuo
    /\ "d2" \in DOMAIN editionsByDoc
    /\ ListOf("d2") = <<>>

\* C15: after the merge a target document has the edition-sourced
\* SelectedSource whenever the resolver selected one (also when the
\* fallback delivered a row for it), otherwise the document-level one if
\* the delivered text is non-empty after trimming, otherwise none.
C15_OneSource ==
    ipc = "merged" =>
       /\ DOMAIN selectedByDocument \subseteq Range(targetDocs)
       /\ \A d \in Range(targetDocs) :
             IF d \in DOMAIN selected
             THEN /\ d \in DOMAIN selectedByDocument
                  /\ selectedByDocument[d] = selected[d]
                  /\ selectedByDocument[d].sourceModel = "Suvestine"
             ELSE IF d \in DOMAIN docServed /\ HasContent(docServed[d].tekstas_lt)
             THEN /\ d \in DOMAIN selectedByDocument
                  /\ selectedByDocument[d] =
                        [sourceModel |-> "Dokumentas",
                         sourceUrl |-> docServed[d].nuoroda,
                         text |-> Trimmed(docServed[d].tekstas_lt),
                         edition |-> NoEdition]
             ELSE d \notin DOMAIN selectedByDocument

\* d1 resolved by edition although the fallback delivered a row for it too;
\* d2 resolved by the fallback
C15_Witness ==
    /\ ipc = "merged"
    /\ "d1" \in DOMAIN selected
    /\ "d1" \in DOMAIN fallbackSelected
    /\ selectedByDocument["d1"].sourceModel = "Suvestine"
    /\ "d2" \in DOMAIN selectedByDocument
    /\ selectedByDocument["d2"].sourceModel = "Dokumentas"

\* ========================================================================
\* Claims about the write loop, the summary and the skip log (SpecRuns)
\* ========================================================================

\* the positions of q whose element is about document id
About(q, id) == {j \in 1..Len(q) : q[j].document_id = id}

\* C16: in a run that completes every target document has exactly one
\* outcome: a skip entry no_text_available (no source), a skip entry
\* no_parsed_provisions (a source without provisions), or one seed file
\* and one provenance file; written + skipped = number of target
\* documents, and the loop goes on after a skipped document.
C16_OneOutcome ==
    /\ ipc \in {"documents", "done"} =>
          /\ written + Len(skipped) = docIdx
          /\ Len(seedWrites) = written
          /\ Len(sourceWrites) = written
    /\ ipc = "done" =>
          /\ docIdx = Len(targetDocs)
          /\ written + Len(skipped) = Len(targetDocs)
          /\ \A k \in 1..Len(targetDocs) :
                LET id == targetDocs[k].dokumento_id
                    n == Cardinality({j \in 1..Len(targetDocs) :
                                         targetDocs[j].dokumento_id = id})
                    skips == About(skipped, id)
                    seeds == About(seedWrites, id)
                    provs == About(sourceWrites, id)
                IN IF id \notin DOMAIN selectedByDocument
                   THEN /\ Cardinality(skips) = n
                        /\ \A j \in skips : skipped[j].reason = NoTextAvailable
                        /\ seeds = {} /\ provs = {}
                   ELSE IF selectedByDocument[id].text.provisions = 0
                   THEN /\ Cardinality(skips) = n
                        /\ \A j \in skips : skipped[j].reason = NoParsedProvisions
                        /\ seeds = {} /\ provs = {}
                   ELSE /\ skips = {}
                        /\ Cardinality(seeds) = n /\ Cardinality(provs) = n
                        /\ \A j \in seeds :
                              /\ seedWrites[j].file \in DOMAIN seedDir
                              /\ seedDir[seedWrites[j].file] = seedWrites[j].record
                        /\ \A j \in provs :
                              /\ sourceWrites[j].file \in DOMAIN sourceDir
                              /\ sourceDir[sourceWrites[j].file] = sourceWrites[j].record

\* the first target document was skipped for lack of provisions, the second written
C16_Witness ==
    /\ ipc = "done"
    /\ Len(targetDocs) = 2
    /\ Len(skipped) = 1
    /\ skipped[1].document_id = targetDocs[1].dokumento_id
    /\ skipped[1].reason = NoParsedProvisions
    /\ written = 1
    /\ seedWrites[1].document_id = targetDocs[2].dokumento_id

\* C18: all seeds written for a document in runs of the same mode over the
\* same snapshot carry the same identifier, the one of the assignment over
\* the whole corpus, whatever the window (start, limit) of the run.
C18_WindowIndependent ==
    \A x \in idsWritten :
       /\ x.id = buildSeedIdMap(CorpusOf(x.mode, SortDocuments(allInForceLaws)))
                    .map[x.document_id]
       /\ \A y \in idsWritten :
             (x.mode = y.mode /\ x.document_id = y.document_id) => x.id = y.id

\* DocB, whose identifier is disambiguated against DocA's, written by a run
\* over the whole corpus and by a run whose window is DocB alone
C18_Witness ==
    \E x, y \in idsWritten :
       /\ x.document_id = DocB.dokumento_id
       /\ y.document_id = DocB.dokumento_id
       /\ x.mode = y.mode
       /\ x.start = 0 /\ x.limit = NoLimit
       /\ y.start = 1
       /\ x.id = y.id
       /\ x.id # AutoBase(DocB)

RECURSIVE SumRecords(_, _)
SumRecords(q, field) ==
    IF q = <<>> THEN 0 ELSE Head(q).record[field] + SumRecords(Tail(q), field)

\* the value of a field of the summary file found when the run started
PriorCount(field) ==
    IF args.resume /\ summaryBefore.exists /\ summaryBefore[field] # Missing
    THEN summaryBefore[field] ELSE 0

\* the number of provenance files of the run that name the source model
UsageOf(model) ==
    Cardinality({j \in 1..Len(sourceWrites) : sourceWrites[j].record.source_model = model})

\* C19: the summary a run writes holds, for provisions, definitions and
\* the two source-usage counts, the run's own count plus, in resume mode,
\* the value of the prior summary (0 if the file or the field is missing).
C19_SummaryAdds ==
    ipc = "done" =>
       /\ summaryFile.exists
       /\ summaryFile.provisions = PriorCount("provisions") + SumRecords(seedWrites, "provisions")
       /\ summaryFile.definitions = PriorCount("definitions") + SumRecords(seedWrites, "definitions")
       /\ summaryFile.suvestine = PriorCount("suvestine") + UsageOf("Suvestine")
       /\ summaryFile.dokumentas_fallback
             = PriorCount("dokumentas_fallback") + UsageOf("Dokumentas")

\* prior provisions 10, this run 5: the summary holds 15
C19_Witness ==
    /\ ipc = "done"
    /\ args.resume
    /\ summaryBefore.exists
    /\ summaryBefore.provisions = 10
    /\ summaryBefore.definitions = Missing
    /\ SumRecords(seedWrites, "provisions") = 5
    /\ summaryFile.provisions = 15
    /\ summaryFile.definitions = 1

\* C20: after a run the skip log has one entry per (document, reason)
\* pair, has an entry for every pair skipped since the log was last
\* started afresh, and each entry is the one of the latest skip of its pair.
C20_SkipLogMerged ==
    ipc = "done" =>
       /\ skippedFile.exists
       /\ \A j, k \in 1..Len(skippedFile.entries) :
             (/\ skippedFile.entries[j].document_id = skippedFile.entries[k].document_id
              /\ skippedFile.entries[j].reason = skippedFile.entries[k].reason) => j = k
       /\ {<<skippedFile.entries[k].document_id, skippedFile.entries[k].reason>> :
              k \in 1..Len(skippedFile.entries)} = DOMAIN skipLatest
       /\ \A k \in 1..Len(skippedFile.entries) :
             skippedFile.entries[k]
                = skipLatest[<<skippedFile.entries[k].document_id,
                               skippedFile.entries[k].reason>>]

\* a resumed second run skipped the pair the first run had skipped, with
\* other details: the log holds one entry, the later one
C20_Witness ==
    /\ ipc = "done"
    /\ runs = 2
    /\ args.resume
    /\ summaryBefore.exists
    /\ summaryBefore.skipped_laws = 1
    /\ Len(skipped) = 1
    /\ skipped[1].reason = NoParsedProvisions
    /\ Len(skippedFile.entries) = 1
    /\ skippedFile.entries[1] = skipped[1]

\* ========================================================================
\* Claims about identifier assignment (SpecIds)
\* ========================================================================

\* the k-th identifier buildAutoId tries for a document: the base, the
\* base with the document suffix, then that with the counter k = 2, 3, ...
AutoCandidate(doc, k) ==
    IF k = 0 THEN AutoBase(doc)
    ELSE IF k = 1 THEN AutoBase(doc) \o <<"-">> \o AutoSuffix(doc)
    ELSE AutoBase(doc) \o <<"-">> \o AutoSuffix(doc) \o <<"-">> \o Decimal(k)

DocumentIds(q) == {q[k].dokumento_id : k \in 1..Len(q)}

\* C17 (step): a document outside the known-law table gets the first
\* identifier of its series that no earlier document was given.
C17_AutoStep ==
    (idpc = "loop" /\ docPos' = docPos + 1 /\ ~IsKnown(docs[docPos + 1].dokumento_id)) =>
       \E k \in 0..(Cardinality(used) + 1) :
          /\ map'[docs[docPos + 1].dokumento_id] = AutoCandidate(docs[docPos + 1], k)
          /\ AutoCandidate(docs[docPos + 1], k) \notin used
          /\ \A j \in 0..(k - 1) : AutoCandidate(docs[docPos + 1], j) \in used
          /\ used' = used \cup {AutoCandidate(docs[docPos + 1], k)}

\* C17 (state): the map gives no identifier to two different documents and
\* gives a known law its pinned identifier; the assignment ends by a throw
\* only on a pinned identifier already in use, otherwise with a map over
\* all documents.
C17_Unique ==
    /\ \A d1, d2 \in DOMAIN map : d1 # d2 => map[d1] # map[d2]
    /\ \A d \in DOMAIN map : IsKnown(d) => map[d] = KnownLaw(d).id
    /\ \A d \in DOMAIN map : map[d] \in used
    /\ idpc = "threw" =>
          /\ IsKnown(docs[docPos + 1].dokumento_id)
          /\ KnownLaw(docs[docPos + 1].dokumento_id).id \in used
    /\ idpc \in {"loop", "returned", "threw"} =>
          DOMAIN map = DocumentIds(SubSeq(docs, 1, docPos))
    /\ idpc = "returned" => docPos = Len(docs)

\* C17: identifier assignment aborts with a duplicate-known-id error or
\* returns a map without two documents of the same identifier; a known
\* law gets its pinned identifier, every other document an automatic one
\* disambiguated (suffix, then counter) against all identifiers given before.
C17_IdsUnique == [][C17_AutoStep]_vars /\ [](C17_Unique)

\* three documents of the same act number: base, base-suffix, base-suffix-2
C17_Witness ==
    /\ idpc = "returned"
    /\ docs = <<DocA, DocB, DocC>>
    /\ map[DocA.dokumento_id] = <<"l", "t", "-", "l", "a", "w", "-", "x", "-", "1">>
    /\ map[DocB.dokumento_id] = <<"l", "t", "-", "l", "a", "w", "-", "x", "-", "1", "-", "t", "a", "r", "-", "a", "a", "a", "a", "a", "a">>
    /\ map[DocC.dokumento_id] = <<"l", "t", "-", "l", "a", "w", "-", "x", "-", "1", "-", "t", "a", "r", "-", "a", "a", "a", "a", "a", "a", "-", "2">>

\* ========================================================================
\* Claims about the segmenter and the status of a seed record (SpecSeed)
\* ========================================================================

\* the value mapStatus compares: null and absent count as the empty string,
\* surrounding whitespace and letter case are ignored
StatusWord == LowerStr(TrimWs(IF galioj_busena = NoStatus THEN <<>> ELSE galioj_busena))

\* C21: the status of a seed record is one of two values: repealed when
\* galioj_busena, trimmed and lower-cased, is 'negalioja', and in_force for
\* every other value, null, absent and empty included ('galioja' too); no
\* seed record carries any other status.
C21_TwoStatuses ==
    spc = "done" =>
        /\ seedStatus \in {InForce, Repealed}
        /\ seedStatus = Repealed <=>
              StatusWord = <<"n", "e", "g", "a", "l", "i", "o", "j", "a">>

\* a value that is 'negalioja' only after trimming and lower-casing was
\* mapped to repealed
C21_Witness ==
    /\ spc = "done"
    /\ seedStatus = Repealed
    /\ galioj_busena # <<"n", "e", "g", "a", "l", "i", "o", "j", "a">>

\* the call of parseLithuanianLawText has returned
Parsed == spc \in {"parsed", "done"}

\* the lines of the normalized input text, trimmed
InputLines ==
    LET lines == SplitLines(normalizeInput(inputText))
    IN [i \in 1..Len(lines) |-> TrimWs(lines[i])]

\* the lines that are an article heading: a label beginning with a digit,
\* whitespace, then 'straipsnis.'
HeadingLinesOf(lines) == {i \in 1..Len(lines) : IsHeadingLine(lines[i])}

\* C23: segmenting the empty text, or a text in which no line is an article
\* heading, gives no provisions and no definitions.
C23_NoHeadingNoOutput ==
    (Parsed /\ HeadingLinesOf(InputLines) = {}) => parseResult = NoResult

\* the cleaned content of the i-th heading match: the text between the
\* match and the next match or the end of the text, cleaned
CleanedContent(i) == cleanContent(SliceOf(relevantText, articleMarkers, i))

\* the heading matches whose cleaned content is empty
EmptyHeadings == {i \in 1..Len(articleMarkers) : CleanedContent(i) = <<>>}

LabelOf(i) == sanitizeSection(articleMarkers[i].section)

\* the heading matches in a text none of whose labels occurs twice,
\* compared as written and compared without regard to letter case
LabelsDifferAsWritten ==
    \A i, j \in 1..Len(articleMarkers) : i # j => LabelOf(i) # LabelOf(j)
LabelsDifferInLowerCase ==
    \A i, j \in 1..Len(articleMarkers) : i # j => LowerStr(LabelOf(i)) # LowerStr(LabelOf(j))

\* no two provisions of the result have the same reference key
KeysDiffer ==
    \A i, j \in 1..Len(parseResult.provisions) :
        i # j => parseResult.provisions[i].provision_ref # parseResult.provisions[j].provision_ref

\* each key is 'art' followed by the lower-cased label
KeysFromLabels ==
    \A i \in 1..Len(parseResult.provisions) :
        parseResult.provisions[i].provision_ref =
            <<"a", "r", "t">> \o LowerStr(parseResult.provisions[i].section)

NormalizedInput == trimTrailingSections(normalizeInput(inputText))
BodyOffset == IF FirstArticle(NormalizedInput) < 0 THEN 0 ELSE FirstArticle(NormalizedInput)

\* the heading matches that gave a provision, in order: the k-th provision
\* is the one of the k-th of them
KeptHeadings ==
    LET kept == {i \in 1..Len(articleMarkers) : i \notin EmptyHeadings}
    IN [k \in 1..Cardinality(kept) |->
          CHOOSE i \in kept : Cardinality({j \in kept : j < i}) = k - 1]

\* the combined label of the last chapter heading of the normalized input
\* text at or before the heading of the k-th provision, if there is one
ChapterBefore(k) ==
    chapterForIndex(parseChapterMarkers(NormalizedInput),
                    BodyOffset + articleMarkers[KeptHeadings[k]].index)

\* C26: the chapter of every provision is the combined label of the last
\* chapter heading at or before its article heading in the normalized
\* input text, and is absent only if no chapter heading precedes it.
C26_ChapterOfProvision ==
    Parsed =>
        \A k \in 1..Len(parseResult.provisions) :
            parseResult.provisions[k].chapter = ChapterBefore(k)

\* the heading match of the k-th provision
HeadingOf(k) == articleMarkers[KeptHeadings[k]]

\* C27: when a heading carries a non-empty inline title, the title of the
\* provision is '<label> straipsnis. <inline title>' and its content is the
\* whole cleaned content, no line of it removed.
C27_InlineTitleKept ==
    Parsed =>
        \A k \in 1..Len(parseResult.provisions) :
            HeadingOf(k).titleTail # <<>> =>
                /\ parseResult.provisions[k].title =
                      sanitizeSection(HeadingOf(k).section)
                         \o <<" ", "straipsnis", ".", " ">> \o HeadingOf(k).titleTail
                /\ parseResult.provisions[k].content = CleanedContent(KeptHeadings[k])

\* a provision with an inline title whose content has more than one line
C27_Witness ==
    /\ Parsed
    /\ \E k \in 1..Len(parseResult.provisions) :
          /\ HeadingOf(k).titleTail # <<>>
          /\ Len(SplitLines(parseResult.provisions[k].content)) >= 2

\* a trigger keyword occurs in the title and content of provision p,
\* letter case ignored
Triggers(p) ==
    \E k \in 1..Len(p.title \o <<"\n">> \o p.content) :
        LowerOf((p.title \o <<"\n">> \o p.content)[k])
           \in {"sa,vok", "apibre'z^", "s^iame i,statyme vartojam"}

\* the definitions found in provision p by the two patterns
FoundIn(p) ==
    Range(NumberedLoop(p.content, 0, p.provision_ref))
       \cup Range(QuotedLoop(p.content, 0, p.provision_ref))

\* C28: every definition of the result comes from a provision of the
\* result whose title and content hold a trigger keyword, and names that
\* provision's key as its source; when no provision holds a trigger
\* keyword there is no definition.
C28_DefinitionsFromTriggers ==
    Parsed =>
        /\ \A d \in Range(parseResult.definitions) :
              \E p \in Range(parseResult.provisions) :
                  /\ Triggers(p)
                  /\ d.source_provision = p.provision_ref
                  /\ d \in FoundIn(p)
        /\ (\A p \in Range(parseResult.provisions) : ~Triggers(p)) =>
              parseResult.definitions = <<>>

\* a definition was returned, and a provision without trigger keyword
\* whose content reads as a definition contributed none
C28_Witness ==
    /\ Parsed
    /\ parseResult.definitions # <<>>
    /\ \E p \in Range(parseResult.provisions) :
          /\ ~Triggers(p)
          /\ FoundIn(p) # {}
          /\ \A d \in Range(parseResult.definitions) : d.source_provision # p.provision_ref

\* C29: the definitions returned for a document hold no two entries with
\* the same lower-cased term and the same definition text, also when two
\* provisions give the same term and definition.
C29_NoDuplicateDefinitions ==
    Parsed =>
        \A i, j \in 1..Len(parseResult.definitions) :
            i # j => DefinitionKey(parseResult.definitions[i])
                        # DefinitionKey(parseResult.definitions[j])

\* the definitions extracted from the provisions of the result, in
\* extraction order: provisions in document order, within a provision the
\* matches of the numbered pattern before those of the quoted pattern,
\* repetitions within the provision dropped
Extracted ==
    Flatten([k \in 1..Len(parseResult.provisions) |->
               IF Triggers(parseResult.provisions[k])
               THEN DedupeFrom(
                        NumberedLoop(parseResult.provisions[k].content, 0,
                                     parseResult.provisions[k].provision_ref)
                        \o QuotedLoop(parseResult.provisions[k].content, 0,
                                      parseResult.provisions[k].provision_ref), 1)
               ELSE <<>>])

\* C30: at most DefinitionCap definitions are returned, and they are the
\* first min(DefinitionCap, n) of the n extracted, in extraction order.
C30_FirstDefinitions ==
    Parsed =>
        /\ Len(parseResult.definitions) <= 200
        /\ parseResult.definitions =
              SubSeq(Extracted, 1, IF Len(Extracted) < 200 THEN Len(Extracted) ELSE 200)

\* more definitions were extracted than are returned, numbered and quoted
\* ones among them
C30_Witness ==
    /\ Parsed
    /\ Len(definitions) > 200
    /\ Len(parseResult.definitions) = 200
    /\ parseResult.definitions[1].term # parseResult.definitions[200].term

\* ========================================================================
\* A claim about the runs of main (SpecRuns)
\* ========================================================================

\* the run is in a phase whose fetches are not all done
Fetching == ipc \in {"discover", "sources"}

\* the files a run writes
OutputFiles == <<seedDir, sourceDir, summaryFile, skippedFile>>

\* C22: a fatal fetch error aborts the whole run: every fetch of a run
\* precedes its first write, so while a fetch can fail the run has written
\* nothing, the failure leaves every output file as it is, and after an
\* abort nothing happens but the start of another run; an abort after a
\* write is never a fetch error (it is the missing seed id of the document
\* at hand).
C22_FetchErrorAborts ==
    [][/\ Fetching => (seedWrites = <<>> /\ sourceWrites = <<>> /\ written = 0)
       /\ (Fetching /\ ipc' = "aborted") =>
             (UNCHANGED OutputFiles /\ seedWrites' = <<>> /\ sourceWrites' = <<>>)
       /\ ipc = "aborted" => (runs' = runs + 1 /\ ipc' = "discover")
       /\ (ipc' = "aborted" /\ ~Fetching /\ ipc # "aborted") =>
             /\ ipc = "documents"
             /\ docIdx' = docIdx + 1
             /\ targetDocs[docIdx + 1].dokumento_id \notin DOMAIN seedIdByDocument
             /\ UNCHANGED OutputFiles]_vars

\* a run that had its identifiers was aborted by a failing fetch while the
\* files of an earlier run were on disk, and wrote nothing
C22_Witness ==
    /\ ipc = "aborted"
    /\ docIdx = 0
    /\ seedIdByDocument # EmptyMap
    /\ seedWrites = <<>>
    /\ summaryFile.exists
    /\ runs >= 2

\* ------------------------------------------------------------------------
\* Claims on the calls of the segmenter in one process
\* ------------------------------------------------------------------------

\* the result of parseLithuanianLawText(text) in a process that has
\* segmented no text before (ARTICLE_HEADING.lastIndex is 0)
Merged(one, rest) ==
    [provisions |-> one.provisions \o rest.provisions,
     definitions |-> one.definitions \o rest.definitions]
RECURSIVE FirstCallFrom(_, _, _, _)
FirstCallFrom(relevant, chapters, markers, i) ==
    IF i > Len(markers) THEN NoResult
    ELSE Merged(ArticleOf(relevant, chapters, markers, i),
                FirstCallFrom(relevant, chapters, markers, i + 1))
FirstCallOn(relevant) ==
    FirstCallFrom(relevant, parseChapterMarkers(relevant),
                  collectArticleMarkers(relevant, 0), 1)
Capped(all) ==
    [provisions |-> all.provisions, definitions |-> CapDefinitions(all.definitions)]
FirstCallAt(normalized, firstArticle) ==
    IF firstArticle < 0 THEN NoResult
    ELSE Capped(FirstCallOn(SubSeq(normalized, firstArticle + 1, Len(normalized))))
FirstCallIn(normalized) == FirstCallAt(normalized, FirstArticle(normalized))
FirstCall(text) == FirstCallIn(trimTrailingSections(normalizeInput(text)))

\* C31: whatever texts the process segmented before, the result of a call is
\* the result the same text has in a fresh process, and the scan position of
\* the shared heading matcher is 0 when a call starts and when it has
\* returned.
C31_HistoryIndependent ==
    /\ spc \in {"start", "parsed", "done"} => headingLastIndex = 0
    /\ Parsed => parseResult = FirstCall(inputText)

\* a later call of the process has returned provisions
C31_Witness ==
    /\ segmented >= 1
    /\ spc = "parsed"
    /\ parseResult.provisions # <<>>

\* ------------------------------------------------------------------------
\* Claims on the response metadata
\* ------------------------------------------------------------------------

\* C32: for every database, generateResponseMetadata returns (no error
\* leaves it); the result has jurisdiction 'LT' and a data_source naming
\* www.e-tar.lt; freshness is the stored value of built_at when that row
\* exists, and is absent when the row is missing or the query raises.
C32_MetadataNeverFails ==
    /\ mpc = "call" => ENABLED NextMeta
    /\ mpc = "returned" =>
          /\ metadata.jurisdiction = "LT"
          /\ \E i \in 1..Len(metadata.data_source) : metadata.data_source[i] = "www.e-tar.lt"
          /\ IF ~metaDb.raises /\ "built_at" \in DOMAIN metaDb.table
             THEN metadata.freshness = metaDb.table["built_at"]
             ELSE metadata.freshness = Undefined

\* the call has returned on a database whose query raises, and on one that
\* has rows but none for built_at
C32_Witness ==
    /\ mpc = "returned"
    /\ \/ metaDb.raises
       \/ /\ DOMAIN metaDb.table # {}
          /\ "built_at" \notin DOMAIN metaDb.table

\* ------------------------------------------------------------------------
\* Claims on the inline title and on the order of the provisions
\* ------------------------------------------------------------------------

\* the heading matched for markers[i]: its label, and the position of the
\* period after 'straipsnis'
MatchedHeading(i) == HeadingFrom(relevantText, articleMarkers[i].index + 1)

\* the text between that period and the end of the period's line
OwnLineRest(i) ==
    SubSeq(relevantText, MatchedHeading(i).dot + 1,
           LineEnd(relevantText, MatchedHeading(i).dot + 1) - 1)

\* C33: the inline title captured for a heading is the text after the
\* period on the heading's own line, trimmed (empty when the line ends at
\* the period), and the heading match does not reach into a following line.
C33_TitleFromOwnLine ==
    spc = "articles" =>
        \A i \in 1..Len(articleMarkers) :
            /\ articleMarkers[i].titleTail = TrimWs(OwnLineRest(i))
            /\ articleMarkers[i].index + articleMarkers[i].matchLength
                   <= LineEnd(relevantText, MatchedHeading(i).dot + 1) - 1

\* ------------------------------------------------------------------------
\* Claims on the backoff of fetchJson
\* ------------------------------------------------------------------------

\* fetchJson has thrown on a retryable status because no retry is left
RetriesExhausted ==
    /\ fpc = "aborted"
    /\ lastResp.kind = "http"
    /\ RetryableStatus(lastResp.status)
    /\ lastResp.attempt = 3

\* C34: the sleep before the k-th retry (k = 1, 2, 3) ends at least
\* k * 1500 ms after the failed response arrived, each sleep of a call is
\* longer than the one before, and a call that has used up its retries has
\* spent at least 9000 ms in these sleeps.
C34_LinearBackoff ==
    /\ [][fpc = "backoff" =>
             /\ attempt' \in 1..3
             /\ now' - lastResp.at >= attempt' * 1500
             /\ waited' >= attempt' * 1500
             /\ waited' > waited
             /\ backoffSpent' = backoffSpent + waited']_vars
    /\ [](RetriesExhausted => backoffSpent >= 9000)

\* the fourth failed response of a call: three sleeps lie behind it
C34_Witness ==
    /\ RetriesExhausted
    /\ waited >= 4500
    /\ backoffSpent >= 9000

\* ------------------------------------------------------------------------
\* Claims on the working set of the resolver
\* ------------------------------------------------------------------------

\* C35 (step): the rounds loop is left only with an empty working set or
\* with maxRounds rounds done (never by the break on an empty candidate
\* collection while both still allow a round).
C35_LoopLeft ==
    (ipc = "round" /\ ipc' = "fallback") =>
        (unresolved = <<>> \/ round >= args.maxSuvestineRounds)

\* C35: in every round r each document of the working set has more than r
\* editions, so it has a candidate at position r; no document is ever
\* parked for having none; the loop ends only on an empty working set or
\* on maxRounds.
C35_NoneParked ==
    /\ [](ipc \in {"round", "texts"} =>
             \A d \in Range(unresolved) : Len(ListOf(d)) > round)
    /\ [](ipc = "texts" => CandidateDocs = Range(unresolved))
    /\ [](parked = {} /\ roundExhausted = <<>>)
    /\ [][C35_LoopLeft]_vars

\* a second round runs, on a working set carried over from the first
C35_Witness ==
    /\ ipc = "texts"
    /\ round = 1
    /\ unresolved # <<>>
    /\ CandidateDocs = Range(unresolved)
    /\ Len(targetDocs) > Len(unresolved)

\* the position (from 0) of the edition selected for document d in its list
SelectedAt(d) ==
    CHOOSE k \in 0..(Len(ListOf(d)) - 1) : ListOf(d)[k + 1] = selected[d].edition

\* C36 (step): within one call of the resolver a SelectedSource, once set,
\* is kept as it is.
C36_SelectionKept ==
    ipc # "resolve" =>
        \A d \in DOMAIN selected : d \in DOMAIN selected' /\ selected'[d] = selected[d]

\* C36: a document with a selected edition is in no later working set, its
\* SelectedSource is never replaced, and no text is ever requested for an
\* edition that comes after the selected one in the document's list.
C36_SelectedIsFinal ==
    /\ [](ipc \in {"round", "texts"} => Range(unresolved) \cap DOMAIN selected = {})
    /\ [][C36_SelectionKept]_vars
    /\ [](\A d \in DOMAIN selected :
             /\ selected[d].edition \in Range(ListOf(d))
             /\ \A j \in (SelectedAt(d) + 2)..Len(ListOf(d)) :
                   ListOf(d)[j].suvestines_id \notin Range(textRequested))

\* d2 was selected in round 0 and d1, with three editions, in round 1
C36_Witness ==
    /\ ResolverReturned
    /\ DOMAIN selected = {"d1", "d2"}
    /\ resolvedRound["d2"] = 0
    /\ resolvedRound["d1"] = 1
    /\ Len(ListOf("d1")) = 3
    /\ ListOf("d1")[3].suvestines_id \notin Range(textRequested)

\* ------------------------------------------------------------------------
\* Claims on the output directories after several runs
\* ------------------------------------------------------------------------

\* the runs so far: one without --resume, then runs with --resume only
FreshThenResumed ==
    /\ resumeLog # <<>>
    /\ ~resumeLog[1]
    /\ \A k \in 2..Len(resumeLog) : resumeLog[k]

\* the seed files of data/seed, and the sum of a count over them
SeedFiles == {n \in DOMAIN seedDir : EndsWithJson(n)}
RECURSIVE TotalIn(_, _)
TotalIn(names, field) ==
    IF names = {} THEN 0
    ELSE LET n == CHOOSE x \in names : TRUE
         IN seedDir[n][field] + TotalIn(names \ {n}, field)

\* C37: after a run without --resume and any number of completed runs with
\* --resume, the summary's totals.provisions is the number of provisions
\* in the seed files of the output directory, and totals.definitions the
\* number of definitions.
C37_TotalsMatchSeeds ==
    (ipc = "done" /\ FreshThenResumed) =>
        /\ summaryFile.provisions = TotalIn(SeedFiles, "provisions")
        /\ summaryFile.definitions = TotalIn(SeedFiles, "definitions")

\* the documents that have a seed file in data/seed, named by the
\* provenance file written with it
SeedDocuments == {sourceDir[SourceFileNameOf(n)].document_id : n \in SeedFiles}

\* the documents listed in _skipped-laws.json
SkippedDocuments ==
    {skippedFile.entries[k].document_id : k \in 1..Len(skippedFile.entries)}

\* C38: after any sequence of completed runs no document has a seed file
\* in the output directory and an entry in the persisted skip log at once.
C38_SkippedOrWritten ==
    ipc = "done" =>
        /\ \A n \in SeedFiles : SourceFileNameOf(n) \in DOMAIN sourceDir
        /\ SeedDocuments \cap SkippedDocuments = {}

\* C39 (step): the step in which a fetch of the run throws leaves the two
\* output directories, the summary and the skip log among their files, as
\* they were when the run started.
C39_AbortStep ==
    main_fetchFails =>
        /\ seedDir' = seedDirBefore
        /\ sourceDir' = sourceDirBefore
        /\ summaryFile' = summaryBefore

\* C39: a run that aborts with a fatal fetch error, with or without
\* --resume, leaves in data/seed and data/source exactly the files, with
\* the same contents, that were there before the run started.
C39_AbortKeepsOutput == [][C39_AbortStep]_vars

\* the label of the heading matched for markers[i], read from the text
LabelAt(i) ==
    TrimWs(SubSeq(relevantText, MatchedHeading(i).from, MatchedHeading(i).to - 1))

\* C40: the provisions are those of the headings that gave one, in the
\* order in which these headings stand in the text, whatever their labels,
\* and each has a non-empty content.
C40_DocumentOrder ==
    Parsed =>
        /\ Len(parseResult.provisions) = Len(KeptHeadings)
        /\ \A k \in 1..Len(parseResult.provisions) :
              /\ parseResult.provisions[k].section = sanitizeSection(LabelAt(KeptHeadings[k]))
              /\ parseResult.provisions[k].content # <<>>
        /\ \A k \in 1..(Len(parseResult.provisions) - 1) :
              HeadingOf(k).index < HeadingOf(k + 1).index

\* article 5 stands before article 4 in the text and in the result
C40_Witness ==
    /\ Parsed
    /\ Len(parseResult.provisions) = 2
    /\ parseResult.provisions[1].section = <<"5">>
    /\ parseResult.provisions[2].section = <<"4">>

====
